---- MODULE Spec2Model ----
(***************************************************************************)
(* paste-browser: the URL validator and sanitizer, the /analyze route      *)
(* handler (brace-span extraction, JSON parse, fallback, tool              *)
(* normalization) and the view-state machine of GenerativeMCPApp (tabs,    *)
(* navigation, tool selection, simulated execution).                       *)
(*                                                                         *)
(* A string is a sequence of one-character strings, so that trimming,      *)
(* prefix tests, the brace-span match and JSON parsing are computed the    *)
(* way the code computes them.  A JavaScript value is a record tagged by   *)
(* its type in field t.                                                    *)
(***************************************************************************)
EXTENDS Integers, Sequences, FiniteSets, TLC

VARIABLES
  url,               \* the address-bar field
  isLoading,         \* connectToMCPServer's loading flag
  currentServer,     \* the displayed MCPServer, or Null
  suggestions,       \* url suggestions of the last navigation
  tabs,              \* sequence of LegacyTab records
  activeTab,         \* id of the tab last selected
  predictiveActions, \* the suggested-action cards
  executingAction,   \* the tool shown as executing, or Null
  selectedTool,      \* the tool whose interface is open, or Null
  toolResults,       \* tool name -> result
  formData,          \* tool name -> field -> value
  error,             \* the error banner, or Null
  analyses,          \* claudeApi.analyzeUrl calls awaiting their response
  timers,            \* executeToolWithAI calls awaiting their setTimeout
  op,                \* the handler that ran last, with its argument
  input,             \* argument of the function under check
  output             \* its result

viewVars == <<url, isLoading, currentServer, suggestions, tabs, activeTab,
              predictiveActions, executingAction, selectedTool, toolResults,
              formData, error>>
vars == <<url, isLoading, currentServer, suggestions, tabs, activeTab,
          predictiveActions, executingAction, selectedTool, toolResults,
          formData, error, analyses, timers, op, input, output>>

\* A string is the sequence of its characters, each a string of length one;
\* the grave accent, which no string of this language can hold, is the element
\* "BACKTICK".
Null == [t |-> "null"]
Undefined == [t |-> "undefined"]
Str(s) == [t |-> "str", v |-> s]
Num(n) == [t |-> "num", v |-> n]
Bool(b) == [t |-> "bool", v |-> b]
Arr(a) == [t |-> "arr", v |-> a]

\* !v
Falsy(v) ==
  \/ v.t \in {"undefined", "null"}
  \/ v.t = "str" /\ v.v = <<>>
  \/ v.t = "num" /\ v.v = 0
  \/ v.t = "bool" /\ ~v.v

(***************************************************************************)
(* Strings                                                                 *)
(***************************************************************************)
Whitespace == {" ", "\n", "\t", "\r"}
LineTerminators == {"\n", "\r"}

RECURSIVE TrimStart(_)
TrimStart(s) ==
  IF s # <<>> /\ Head(s) \in Whitespace THEN TrimStart(Tail(s)) ELSE s

RECURSIVE TrimEnd(_)
TrimEnd(s) ==
  IF s # <<>> /\ s[Len(s)] \in Whitespace
  THEN TrimEnd(SubSeq(s, 1, Len(s) - 1)) ELSE s

\* String.prototype.trim
Trim(s) == TrimEnd(TrimStart(s))

StartsWith(s, p) == Len(s) >= Len(p) /\ SubSeq(s, 1, Len(p)) = p

\* String.prototype.includes
Includes(s, p) ==
  \E i \in 1..(Len(s) - Len(p) + 1) : SubSeq(s, i, i + Len(p) - 1) = p

RECURSIVE Join(_, _)
\* Array.prototype.join
Join(ss, sep) ==
  IF ss = <<>> THEN <<>>
  ELSE IF Len(ss) = 1 THEN ss[1]
  ELSE ss[1] \o sep \o Join(Tail(ss), sep)

Digits == <<"0", "1", "2", "3", "4", "5", "6", "7", "8", "9">>

RECURSIVE NatToString(_)
\* `${n}` of a non-negative integer
NatToString(n) ==
  IF n < 10 THEN <<Digits[n + 1]>>
  ELSE NatToString(n \div 10) \o <<Digits[(n % 10) + 1]>>

(***************************************************************************)
(* utils/validation.ts, utils/constants.ts                                 *)
(***************************************************************************)
INVALID_URL == <<"P","l","e","a","s","e"," ","e","n","t","e","r"," ","a"," ","v","a","l","i","d"," ","U","R","L">>
NETWORK_ERROR == <<"N","e","t","w","o","r","k"," ","e","r","r","o","r"," ","o","c","c","u","r","r","e","d","."," ","P","l","e","a","s","e"," ","t","r","y"," ","a","g","a","i","n",".">>
SERVER_ERROR == <<"S","e","r","v","e","r"," ","e","r","r","o","r"," ","o","c","c","u","r","r","e","d","."," ","P","l","e","a","s","e"," ","t","r","y"," ","a","g","a","i","n"," ","l","a","t","e","r",".">>
UNAUTHORIZED == <<"U","n","a","u","t","h","o","r","i","z","e","d"," ","a","c","c","e","s","s","."," ","P","l","e","a","s","e"," ","c","h","e","c","k"," ","y","o","u","r"," ","A","P","I"," ","k","e","y",".">>
RATE_LIMITED == <<"T","o","o"," ","m","a","n","y"," ","r","e","q","u","e","s","t","s","."," ","P","l","e","a","s","e"," ","w","a","i","t"," ","b","e","f","o","r","e"," ","t","r","y","i","n","g"," ","a","g","a","i","n",".">>
VALIDATION_ERROR == <<"V","a","l","i","d","a","t","i","o","n"," ","e","r","r","o","r"," ","o","c","c","u","r","r","e","d">>
UNKNOWN_ERROR == <<"A","n"," ","u","n","k","n","o","w","n"," ","e","r","r","o","r"," ","o","c","c","u","r","r","e","d">>

\* /^https?:\/\//.test(s)
HasProtocol(s) == StartsWith(s, <<"h","t","t","p",":","/","/">>) \/ StartsWith(s, <<"h","t","t","p","s",":","/","/">>)

\* VALIDATION_PATTERNS.URL.test(s), URL = /^https?:\/\/.+/ : the protocol, then
\* at least one character that is no line terminator
MatchesUrlPattern(s) ==
  \E p \in {<<"h","t","t","p",":","/","/">>, <<"h","t","t","p","s",":","/","/">>} :
    /\ StartsWith(s, p)
    /\ Len(s) > Len(p)
    /\ s[Len(p) + 1] \notin LineTerminators

\* validateUrl that tests the pattern on the url as given
validateUrlUntrimmed(u) ==
  LET errors ==
        IF u = <<>> \/ Len(Trim(u)) = 0 THEN <<<<"U","R","L"," ","i","s"," ","r","e","q","u","i","r","e","d">>>>
        ELSE IF ~MatchesUrlPattern(u) THEN <<INVALID_URL>>
        ELSE <<>>
  IN [isValid |-> Len(errors) = 0, errors |-> errors]

\* validateUrl of a string
validateUrl(u) ==
  LET errors ==
        IF u = <<>> \/ Len(Trim(u)) = 0 THEN <<<<"U","R","L"," ","i","s"," ","r","e","q","u","i","r","e","d">>>>
        ELSE IF ~MatchesUrlPattern(Trim(u)) THEN <<INVALID_URL>>
        ELSE <<>>
  IN [isValid |-> Len(errors) = 0, errors |-> errors]

\* sanitizeUrl that tests the trimmed url and prepends to the untrimmed one
sanitizeUrlUntrimmed(u) ==
  LET trimmed == Trim(u)
  IN IF trimmed = <<>> THEN <<>>
     ELSE IF ~HasProtocol(trimmed) THEN <<"h","t","t","p","s",":","/","/">> \o u
     ELSE trimmed

\* sanitizeUrl
sanitizeUrl(u) ==
  LET trimmed == Trim(u)
  IN IF trimmed = <<>> THEN <<>>
     ELSE IF ~HasProtocol(trimmed) THEN <<"h","t","t","p","s",":","/","/">> \o trimmed
     ELSE trimmed

(***************************************************************************)
(* JavaScript objects and JSON.parse                                       *)
(***************************************************************************)
\* an object is its own properties: a function from keys to values
Obj(f) == [t |-> "obj", v |-> f]
EmptyObj == Obj(<<>>)

Has(o, key) == o.t = "obj" /\ key \in DOMAIN o.v

\* o[key] of a value that is not null or undefined
Get(o, key) == IF Has(o, key) THEN o.v[key] ELSE Undefined

\* the own enumerable properties that { ...v } copies
Spread(v) ==
  IF v.t = "obj" THEN v.v
  ELSE IF v.t = "arr" /\ v.v # <<>>
    THEN [k \in {NatToString(i - 1) : i \in 1..Len(v.v)} |->
            v.v[CHOOSE i \in 1..Len(v.v) : NatToString(i - 1) = k]]
  ELSE IF v.t = "str" /\ v.v # <<>>
    THEN [k \in {NatToString(i - 1) : i \in 1..Len(v.v)} |->
            Str(<<v.v[CHOOSE i \in 1..Len(v.v) : NatToString(i - 1) = k]>>)]
  ELSE <<>>

\* { ...o, key: val }
With(f, key, val) == (key :> val) @@ f

Fail == [ok |-> FALSE]
Ok(v, i) == [ok |-> TRUE, val |-> v, pos |-> i]

JsonWhitespace == {" ", "\n", "\t", "\r"}
DigitChars == {"0", "1", "2", "3", "4", "5", "6", "7", "8", "9"}
DigitValue(c) == CHOOSE d \in 0..9 : Digits[d + 1] = c

RECURSIVE SkipWs(_, _)
SkipWs(s, i) ==
  IF i <= Len(s) /\ s[i] \in JsonWhitespace THEN SkipWs(s, i + 1) ELSE i

StartsWithAt(s, i, p) ==
  i + Len(p) - 1 <= Len(s) /\ SubSeq(s, i, i + Len(p) - 1) = p

\* a string literal opening at s[i]: up to the next quote, where a control
\* character inside is a syntax error.  Escape sequences are not decoded: a
\* backslash is a syntax error here, and no text drawn below holds one.
ParseString(s, i) ==
  LET closes == {j \in (i + 1)..Len(s) : s[j] = "\""}
  IN IF closes = {} THEN Fail
     ELSE LET j == CHOOSE c \in closes : \A d \in closes : c <= d
              body == SubSeq(s, i + 1, j - 1)
          IN IF \E n \in 1..Len(body) : body[n] \in {"\n", "\t", "\r", "\\"}
             THEN Fail
             ELSE Ok(Str(body), j + 1)

RECURSIVE ParseDigits(_, _, _)
ParseDigits(s, i, acc) ==
  IF i <= Len(s) /\ s[i] \in DigitChars
  THEN ParseDigits(s, i + 1, acc * 10 + DigitValue(s[i]))
  ELSE Ok(Num(acc), i)

\* a number opening at the digit s[i]: 0, or a digit 1-9 and more digits
\* (signs, fractions and exponents occur in no text drawn below)
ParseNumber(s, i) ==
  IF s[i] = "0" THEN Ok(Num(0), i + 1) ELSE ParseDigits(s, i, 0)

RECURSIVE ParseValue(_, _)
RECURSIVE ParseArray(_, _, _, _)
RECURSIVE ParseObject(_, _, _, _)

\* the elements of an array from s[i] on; first: nothing was read yet
ParseArray(s, i, acc, first) ==
  LET j == SkipWs(s, i)
  IN IF j > Len(s) THEN Fail
     ELSE IF first /\ s[j] = "]" THEN Ok(Arr(acc), j + 1)
     ELSE LET r == ParseValue(s, j)
          IN IF ~r.ok THEN Fail
             ELSE LET k == SkipWs(s, r.pos)
                  IN IF k > Len(s) THEN Fail
                     ELSE IF s[k] = ","
                       THEN ParseArray(s, k + 1, Append(acc, r.val), FALSE)
                     ELSE IF s[k] = "]"
                       THEN Ok(Arr(Append(acc, r.val)), k + 1)
                     ELSE Fail

\* the members of an object from s[i] on; a repeated key keeps the last value
ParseObject(s, i, acc, first) ==
  LET j == SkipWs(s, i)
  IN IF j > Len(s) THEN Fail
     ELSE IF first /\ s[j] = "}" THEN Ok(Obj(acc), j + 1)
     ELSE IF s[j] # "\"" THEN Fail
     ELSE LET key == ParseString(s, j)
          IN IF ~key.ok THEN Fail
             ELSE LET c == SkipWs(s, key.pos)
                  IN IF c > Len(s) \/ s[c] # ":" THEN Fail
                     ELSE LET r == ParseValue(s, c + 1)
                          IN IF ~r.ok THEN Fail
                             ELSE LET k == SkipWs(s, r.pos)
                                      members == With(acc, key.val.v, r.val)
                                  IN IF k > Len(s) THEN Fail
                                     ELSE IF s[k] = ","
                                       THEN ParseObject(s, k + 1, members, FALSE)
                                     ELSE IF s[k] = "}"
                                       THEN Ok(Obj(members), k + 1)
                                     ELSE Fail

ParseValue(s, i) ==
  LET j == SkipWs(s, i)
  IN IF j > Len(s) THEN Fail
     ELSE IF s[j] = "{" THEN ParseObject(s, j + 1, <<>>, TRUE)
     ELSE IF s[j] = "[" THEN ParseArray(s, j + 1, <<>>, TRUE)
     ELSE IF s[j] = "\"" THEN ParseString(s, j)
     ELSE IF s[j] \in DigitChars THEN ParseNumber(s, j)
     ELSE IF StartsWithAt(s, j, <<"n","u","l","l">>) THEN Ok(Null, j + 4)
     ELSE IF StartsWithAt(s, j, <<"t","r","u","e">>) THEN Ok(Bool(TRUE), j + 4)
     ELSE IF StartsWithAt(s, j, <<"f","a","l","s","e">>) THEN Ok(Bool(FALSE), j + 5)
     ELSE Fail

\* JSON.parse(text): ok is FALSE where it throws SyntaxError
JSONparse(text) ==
  LET r == ParseValue(text, 1)
  IN IF r.ok /\ SkipWs(text, r.pos) > Len(text) THEN r ELSE Fail

\* the match of /\{[\s\S]*?\}/ : the first "{" through the next "}"
MatchBraceSpanLazy(text) ==
  LET opens == {i \in 1..Len(text) : text[i] = "{"}
  IN IF opens = {} THEN Null
     ELSE LET a == CHOOSE i \in opens : \A j \in opens : i <= j
              closes == {i \in (a + 1)..Len(text) : text[i] = "}"}
          IN IF closes = {} THEN Null
             ELSE Str(SubSeq(text, a, CHOOSE i \in closes : \A j \in closes : i <= j))

\* responseText.match(/\{[\s\S]*\}/): from the first { through the last },
\* or Null when no } follows the first {
MatchBraceSpan(text) ==
  LET opens == {i \in 1..Len(text) : text[i] = "{"}
      closes == {i \in 1..Len(text) : text[i] = "}"}
  IN IF opens = {} \/ closes = {} THEN Null
     ELSE LET a == CHOOSE i \in opens : \A j \in opens : i <= j
              b == CHOOSE i \in closes : \A j \in closes : i >= j
          IN IF b > a THEN Str(SubSeq(text, a, b)) ELSE Null

(***************************************************************************)
(* POST /api/claude/analyze                                                *)
(***************************************************************************)
Tool(id, name, description, category, action) ==
  Obj([k \in {<<"i","d">>, <<"n","a","m","e">>, <<"d","e","s","c","r","i","p","t","i","o","n">>, <<"c","a","t","e","g","o","r","y">>, <<"a","c","t","i","o","n">>} |->
        IF k = <<"i","d">> THEN Str(id)
        ELSE IF k = <<"n","a","m","e">> THEN Str(name)
        ELSE IF k = <<"d","e","s","c","r","i","p","t","i","o","n">> THEN Str(description)
        ELSE IF k = <<"c","a","t","e","g","o","r","y">> THEN Str(category)
        ELSE Str(action)])

\* the canned tools of the fallback
FallbackTools ==
  <<Tool(<<"n","a","v","i","g","a","t","e">>, <<"N","a","v","i","g","a","t","e"," ","t","o"," ","U","R","L">>, <<"O","p","e","n"," ","t","h","e"," ","U","R","L"," ","i","n"," ","a"," ","n","e","w"," ","t","a","b">>,
         <<"n","a","v","i","g","a","t","i","o","n">>, <<"n","a","v","i","g","a","t","e">>),
    Tool(<<"e","x","t","r","a","c","t","-","t","e","x","t">>, <<"E","x","t","r","a","c","t"," ","T","e","x","t">>,
         <<"E","x","t","r","a","c","t"," ","a","l","l"," ","t","e","x","t"," ","c","o","n","t","e","n","t"," ","f","r","o","m"," ","t","h","e"," ","p","a","g","e">>, <<"d","a","t","a","-","e","x","t","r","a","c","t","i","o","n">>,
         <<"e","x","t","r","a","c","t">>),
    Tool(<<"a","n","a","l","y","z","e","-","s","t","r","u","c","t","u","r","e">>, <<"A","n","a","l","y","z","e"," ","S","t","r","u","c","t","u","r","e">>,
         <<"A","n","a","l","y","z","e"," ","t","h","e"," ","H","T","M","L"," ","s","t","r","u","c","t","u","r","e"," ","a","n","d"," ","l","a","y","o","u","t">>, <<"a","n","a","l","y","s","i","s">>, <<"a","n","a","l","y","z","e">>)>>

FallbackSuggestions ==
  <<Str(<<"N","a","v","i","g","a","t","e"," ","t","o"," ","t","h","e"," ","w","e","b","s","i","t","e">>), Str(<<"E","x","t","r","a","c","t"," ","k","e","y"," ","i","n","f","o","r","m","a","t","i","o","n">>),
    Str(<<"A","n","a","l","y","z","e"," ","p","a","g","e"," ","s","t","r","u","c","t","u","r","e">>), Str(<<"C","h","e","c","k"," ","f","o","r"," ","i","n","t","e","r","a","c","t","i","v","e"," ","e","l","e","m","e","n","t","s">>),
    Str(<<"R","e","v","i","e","w"," ","c","o","n","t","e","n","t"," ","q","u","a","l","i","t","y">>)>>

\* the catch (parseError) branch
FallbackAnalysis(responseText) ==
  Obj([k \in {<<"a","n","a","l","y","s","i","s">>, <<"s","u","g","g","e","s","t","i","o","n","s">>, <<"t","o","o","l","s">>} |->
        IF k = <<"a","n","a","l","y","s","i","s">>
          THEN (IF responseText = <<>> THEN Str(<<"A","n","a","l","y","s","i","s"," ","c","o","m","p","l","e","t","e","d">>)
                ELSE Str(responseText))
        ELSE IF k = <<"s","u","g","g","e","s","t","i","o","n","s">> THEN Arr(FallbackSuggestions)
        ELSE Arr(FallbackTools)])

\* the inner try/catch: the brace span (or the whole text) parsed as JSON,
\* the fallback where JSON.parse throws
ParseCompletion(responseText) ==
  LET jsonMatch == MatchBraceSpan(responseText)
      jsonString == IF jsonMatch # Null THEN jsonMatch.v ELSE responseText
      parsed == JSONparse(jsonString)
  IN IF parsed.ok THEN parsed.val ELSE FallbackAnalysis(responseText)

\* tool.f || dflt
OrDefault(tool, f, dflt) ==
  IF Falsy(Get(tool, f)) THEN Str(dflt) ELSE Get(tool, f)

\* the callback with id: `${tool.id || 'tool'}-${index}`
NormalizeToolSuffixingId(tool, index) ==
  Obj(With(With(With(With(With(Spread(tool),
    <<"i","d">>, Str(OrDefault(tool, <<"i","d">>, <<"t","o","o","l">>).v \o <<"-">> \o NatToString(index))),
    <<"n","a","m","e">>, OrDefault(tool, <<"n","a","m","e">>, <<"T","o","o","l"," ">> \o NatToString(index + 1))),
    <<"d","e","s","c","r","i","p","t","i","o","n">>, OrDefault(tool, <<"d","e","s","c","r","i","p","t","i","o","n">>, <<"N","o"," ","d","e","s","c","r","i","p","t","i","o","n"," ","a","v","a","i","l","a","b","l","e">>)),
    <<"c","a","t","e","g","o","r","y">>, OrDefault(tool, <<"c","a","t","e","g","o","r","y">>, <<"u","t","i","l","i","t","y">>)),
    <<"a","c","t","i","o","n">>, OrDefault(tool, <<"a","c","t","i","o","n">>, <<"e","x","e","c","u","t","e">>)))

\* the callback with name: tool.name || `Tool ${index}`
NormalizeToolNameFromIndex(tool, index) ==
  Obj(With(With(With(With(With(Spread(tool),
    <<"i","d">>, OrDefault(tool, <<"i","d">>, <<"t","o","o","l","-">> \o NatToString(index))),
    <<"n","a","m","e">>, OrDefault(tool, <<"n","a","m","e">>, <<"T","o","o","l"," ">> \o NatToString(index))),
    <<"d","e","s","c","r","i","p","t","i","o","n">>, OrDefault(tool, <<"d","e","s","c","r","i","p","t","i","o","n">>, <<"N","o"," ","d","e","s","c","r","i","p","t","i","o","n"," ","a","v","a","i","l","a","b","l","e">>)),
    <<"c","a","t","e","g","o","r","y">>, OrDefault(tool, <<"c","a","t","e","g","o","r","y">>, <<"u","t","i","l","i","t","y">>)),
    <<"a","c","t","i","o","n">>, OrDefault(tool, <<"a","c","t","i","o","n">>, <<"e","x","e","c","u","t","e">>)))

\* the callback of analysisData.tools.map, for a tool that is not null
NormalizeTool(tool, index) ==
  Obj(With(With(With(With(With(Spread(tool),
    <<"i","d">>, OrDefault(tool, <<"i","d">>, <<"t","o","o","l","-">> \o NatToString(index))),
    <<"n","a","m","e">>, OrDefault(tool, <<"n","a","m","e">>, <<"T","o","o","l"," ">> \o NatToString(index + 1))),
    <<"d","e","s","c","r","i","p","t","i","o","n">>, OrDefault(tool, <<"d","e","s","c","r","i","p","t","i","o","n">>, <<"N","o"," ","d","e","s","c","r","i","p","t","i","o","n"," ","a","v","a","i","l","a","b","l","e">>)),
    <<"c","a","t","e","g","o","r","y">>, OrDefault(tool, <<"c","a","t","e","g","o","r","y">>, <<"u","t","i","l","i","t","y">>)),
    <<"a","c","t","i","o","n">>, OrDefault(tool, <<"a","c","t","i","o","n">>, <<"e","x","e","c","u","t","e">>)))

\* analysisData.tools.map(...) of an array with no null element
NormalizeTools(tools) ==
  Arr([i \in 1..Len(tools.v) |-> NormalizeTool(tools.v[i], i - 1)])

Return(status, body, called) ==
  [kind |-> "return", status |-> status, body |-> body, called |-> called]
Throw(isError, message, called) ==
  [kind |-> "throw", isError |-> isError, message |-> message, called |-> called]

Failure(errorMessage) ==
  [success |-> FALSE, data |-> Undefined, error |-> Str(errorMessage),
   message |-> Undefined]
Success(data) ==
  [success |-> TRUE, data |-> data, error |-> Undefined,
   message |-> Str(<<"A","n","a","l","y","s","i","s"," ","c","o","m","p","l","e","t","e","d"," ","s","u","c","c","e","s","s","f","u","l","l","y">>)]

\* "Ensure tools have required fields" and the successful return
NormalizeAndReturn(analysisData) ==
  IF analysisData.t = "null"
    THEN Throw(TRUE, <<"C","a","n","n","o","t"," ","r","e","a","d"," ","p","r","o","p","e","r","t","i","e","s"," ","o","f"," ","n","u","l","l"," ","(","r","e","a","d","i","n","g"," ","'","t","o","o","l","s","'",")">>, TRUE)
  ELSE LET tools == Get(analysisData, <<"t","o","o","l","s">>)
       IN IF Falsy(tools) THEN Return(200, Success(analysisData), TRUE)
          ELSE IF tools.t # "arr"
            THEN Throw(TRUE, <<"a","n","a","l","y","s","i","s","D","a","t","a",".","t","o","o","l","s",".","m","a","p"," ","i","s"," ","n","o","t"," ","a"," ","f","u","n","c","t","i","o","n">>, TRUE)
          ELSE IF \E i \in 1..Len(tools.v) : tools.v[i].t = "null"
            THEN Throw(TRUE, <<"C","a","n","n","o","t"," ","r","e","a","d"," ","p","r","o","p","e","r","t","i","e","s"," ","o","f"," ","n","u","l","l"," ","(","r","e","a","d","i","n","g"," ","'","i","d","'",")">>, TRUE)
          ELSE Return(200,
                 Success(Obj(With(analysisData.v, <<"t","o","o","l","s">>, NormalizeTools(tools)))),
                 TRUE)

\* message.content[0]?.type === 'text' ? message.content[0].text : ''
ResponseText(content) ==
  IF content # <<>> /\ content[1].type = "text" THEN content[1].text ELSE <<>>

\* the try block from the call of the completion API on
CallAndParse(api) ==
  IF api.kind = "error" THEN Throw(api.isError, api.message, TRUE)
  ELSE NormalizeAndReturn(ParseCompletion(ResponseText(api.content)))

\* the try block that parses the body and validates the url before it tests
\* the API key
TryBlockValidatingFirst(req) ==
  IF req.body.kind = "malformed"
    THEN Throw(TRUE, req.body.message, FALSE)
  ELSE IF req.body.val.t \in {"null", "undefined"}
    THEN Throw(TRUE, <<"C","a","n","n","o","t"," ","d","e","s","t","r","u","c","t","u","r","e"," ","p","r","o","p","e","r","t","y"," ","'","u","r","l","'"," ","o","f"," ","'","b","o","d","y","'"," ","a","s"," ","i","t"," ","i","s"," ","n","u","l","l",".">>, FALSE)
  ELSE LET u == Get(req.body.val, <<"u","r","l">>)
       IN IF Falsy(u)
            THEN Return(400, Failure(Join(validateUrl(<<>>).errors, <<","," ">>)), FALSE)
          ELSE IF u.t # "str"
            THEN Throw(TRUE, <<"u","r","l",".","t","r","i","m"," ","i","s"," ","n","o","t"," ","a"," ","f","u","n","c","t","i","o","n">>, FALSE)
          ELSE IF ~validateUrl(u.v).isValid
            THEN Return(400, Failure(Join(validateUrl(u.v).errors, <<","," ">>)), FALSE)
          ELSE IF ~req.apiKey
            THEN Return(500, Failure(<<"A","n","t","h","r","o","p","i","c"," ","A","P","I"," ","k","e","y"," ","n","o","t"," ","c","o","n","f","i","g","u","r","e","d","."," ","P","l","e","a","s","e"," ","a","d","d"," ","A","N","T","H","R","O","P","I","C","_","A","P","I","_","K","E","Y"," ","t","o"," ","e","n","v","i","r","o","n","m","e","n","t"," ","v","a","r","i","a","b","l","e","s",".">>), FALSE)
          ELSE CallAndParse(req.api)

\* the try block of POST: req.apiKey says whether ANTHROPIC_API_KEY is set,
\* req.body is what request.json() yields, req.api what messages.create does
TryBlock(req) ==
  IF ~req.apiKey
    THEN Return(500, Failure(<<"A","n","t","h","r","o","p","i","c"," ","A","P","I"," ","k","e","y"," ","n","o","t"," ","c","o","n","f","i","g","u","r","e","d","."," ","P","l","e","a","s","e"," ","a","d","d"," ","A","N","T","H","R","O","P","I","C","_","A","P","I","_","K","E","Y"," ","t","o"," ","e","n","v","i","r","o","n","m","e","n","t"," ","v","a","r","i","a","b","l","e","s",".">>), FALSE)
  ELSE IF req.body.kind = "malformed"
    THEN Throw(TRUE, req.body.message, FALSE)
  ELSE IF req.body.val.t \in {"null", "undefined"}
    THEN Throw(TRUE, <<"C","a","n","n","o","t"," ","d","e","s","t","r","u","c","t","u","r","e"," ","p","r","o","p","e","r","t","y"," ","'","u","r","l","'"," ","o","f"," ","'","b","o","d","y","'"," ","a","s"," ","i","t"," ","i","s"," ","n","u","l","l",".">>, FALSE)
  ELSE LET u == Get(req.body.val, <<"u","r","l">>)
       IN IF Falsy(u)
            THEN Return(400, Failure(Join(validateUrl(<<>>).errors, <<","," ">>)), FALSE)
          ELSE IF u.t # "str"
            THEN Throw(TRUE, <<"u","r","l",".","t","r","i","m"," ","i","s"," ","n","o","t"," ","a"," ","f","u","n","c","t","i","o","n">>, FALSE)
          ELSE IF ~validateUrl(u.v).isValid
            THEN Return(400, Failure(Join(validateUrl(u.v).errors, <<","," ">>)), FALSE)
          ELSE CallAndParse(req.api)

\* the catch block without the test for 'model'
CatchBlockWithoutModel(e) ==
  IF ~e.isError THEN Return(500, Failure(SERVER_ERROR), e.called)
  ELSE IF \/ Includes(e.message, <<"A","P","I"," ","k","e","y">>)
          \/ Includes(e.message, <<"a","u","t","h","e","n","t","i","c","a","t","i","o","n">>)
          \/ Includes(e.message, <<"x","-","a","p","i","-","k","e","y">>)
    THEN Return(401, Failure(<<"I","n","v","a","l","i","d"," ","o","r"," ","m","i","s","s","i","n","g"," ","A","n","t","h","r","o","p","i","c"," ","A","P","I"," ","k","e","y","."," ","P","l","e","a","s","e"," ","c","h","e","c","k"," ","y","o","u","r"," ","e","n","v","i","r","o","n","m","e","n","t"," ","v","a","r","i","a","b","l","e","s",".">>), e.called)
  ELSE IF Includes(e.message, <<"r","a","t","e"," ","l","i","m","i","t">>)
    THEN Return(429, Failure(RATE_LIMITED), e.called)
  ELSE IF Includes(e.message, <<"n","e","t","w","o","r","k">>) \/ Includes(e.message, <<"t","i","m","e","o","u","t">>)
    THEN Return(503, Failure(<<"N","e","t","w","o","r","k"," ","e","r","r","o","r"," ","c","o","n","n","e","c","t","i","n","g"," ","t","o"," ","A","n","t","h","r","o","p","i","c"," ","A","P","I","."," ","P","l","e","a","s","e"," ","t","r","y"," ","a","g","a","i","n",".">>), e.called)
  ELSE Return(500, Failure(<<"A","P","I"," ","E","r","r","o","r",":"," ">> \o e.message), e.called)

\* the catch block that tests for 'rate limit' before the key patterns
CatchBlockRateLimitFirst(e) ==
  IF ~e.isError THEN Return(500, Failure(SERVER_ERROR), e.called)
  ELSE IF Includes(e.message, <<"r","a","t","e"," ","l","i","m","i","t">>)
    THEN Return(429, Failure(RATE_LIMITED), e.called)
  ELSE IF \/ Includes(e.message, <<"A","P","I"," ","k","e","y">>)
          \/ Includes(e.message, <<"a","u","t","h","e","n","t","i","c","a","t","i","o","n">>)
          \/ Includes(e.message, <<"x","-","a","p","i","-","k","e","y">>)
    THEN Return(401, Failure(<<"I","n","v","a","l","i","d"," ","o","r"," ","m","i","s","s","i","n","g"," ","A","n","t","h","r","o","p","i","c"," ","A","P","I"," ","k","e","y","."," ","P","l","e","a","s","e"," ","c","h","e","c","k"," ","y","o","u","r"," ","e","n","v","i","r","o","n","m","e","n","t"," ","v","a","r","i","a","b","l","e","s",".">>), e.called)
  ELSE IF Includes(e.message, <<"n","e","t","w","o","r","k">>) \/ Includes(e.message, <<"t","i","m","e","o","u","t">>)
    THEN Return(503, Failure(<<"N","e","t","w","o","r","k"," ","e","r","r","o","r"," ","c","o","n","n","e","c","t","i","n","g"," ","t","o"," ","A","n","t","h","r","o","p","i","c"," ","A","P","I","."," ","P","l","e","a","s","e"," ","t","r","y"," ","a","g","a","i","n",".">>), e.called)
  ELSE IF Includes(e.message, <<"m","o","d","e","l">>)
    THEN Return(400, Failure(<<"M","o","d","e","l"," ","e","r","r","o","r","."," ","P","l","e","a","s","e"," ","t","r","y"," ","a","g","a","i","n"," ","w","i","t","h"," ","a"," ","d","i","f","f","e","r","e","n","t"," ","r","e","q","u","e","s","t",".">>), e.called)
  ELSE Return(500, Failure(<<"A","P","I"," ","E","r","r","o","r",":"," ">> \o e.message), e.called)

\* the catch block of POST
CatchBlock(e) ==
  IF ~e.isError THEN Return(500, Failure(SERVER_ERROR), e.called)
  ELSE IF \/ Includes(e.message, <<"A","P","I"," ","k","e","y">>)
          \/ Includes(e.message, <<"a","u","t","h","e","n","t","i","c","a","t","i","o","n">>)
          \/ Includes(e.message, <<"x","-","a","p","i","-","k","e","y">>)
    THEN Return(401, Failure(<<"I","n","v","a","l","i","d"," ","o","r"," ","m","i","s","s","i","n","g"," ","A","n","t","h","r","o","p","i","c"," ","A","P","I"," ","k","e","y","."," ","P","l","e","a","s","e"," ","c","h","e","c","k"," ","y","o","u","r"," ","e","n","v","i","r","o","n","m","e","n","t"," ","v","a","r","i","a","b","l","e","s",".">>), e.called)
  ELSE IF Includes(e.message, <<"r","a","t","e"," ","l","i","m","i","t">>)
    THEN Return(429, Failure(RATE_LIMITED), e.called)
  ELSE IF Includes(e.message, <<"n","e","t","w","o","r","k">>) \/ Includes(e.message, <<"t","i","m","e","o","u","t">>)
    THEN Return(503, Failure(<<"N","e","t","w","o","r","k"," ","e","r","r","o","r"," ","c","o","n","n","e","c","t","i","n","g"," ","t","o"," ","A","n","t","h","r","o","p","i","c"," ","A","P","I","."," ","P","l","e","a","s","e"," ","t","r","y"," ","a","g","a","i","n",".">>), e.called)
  ELSE IF Includes(e.message, <<"m","o","d","e","l">>)
    THEN Return(400, Failure(<<"M","o","d","e","l"," ","e","r","r","o","r","."," ","P","l","e","a","s","e"," ","t","r","y"," ","a","g","a","i","n"," ","w","i","t","h"," ","a"," ","d","i","f","f","e","r","e","n","t"," ","r","e","q","u","e","s","t",".">>), e.called)
  ELSE Return(500, Failure(<<"A","P","I"," ","E","r","r","o","r",":"," ">> \o e.message), e.called)

POST(req) ==
  LET r == TryBlock(req)
  IN IF r.kind = "throw" THEN CatchBlock(r) ELSE r


\* NextResponse.json of the body POST returns: JSON.stringify leaves out the
\* members whose value is undefined
ResponseJson(body) ==
  LET member == (<<"s","u","c","c","e","s","s">> :> Bool(body.success)) @@ (<<"d","a","t","a">> :> body.data)
                  @@ (<<"e","r","r","o","r">> :> body.error) @@ (<<"m","e","s","s","a","g","e">> :> body.message)
  IN Obj([key \in {k \in DOMAIN member : member[k] # Undefined} |-> member[key]])

(***************************************************************************)
(* GET /api/test-anthropic                                                 *)
(***************************************************************************)
\* new Date().toISOString(), the clock read as one fixed instant
Timestamp == Str(<<"2","0","2","5","-","0","1","-","0","1","T","0","0",":","0","0",":","0","0",".","0","0","0","Z">>)

\* the try block of GET: the key test, the test call and the 200 response
\* (model and usage are what the API reports for the call)
TestAnthropicTryBlock(req) ==
  IF ~req.apiKey
    THEN Return(500, Obj((<<"e","r","r","o","r">> :> Str(<<"A","P","I"," ","k","e","y"," ","n","o","t"," ","f","o","u","n","d">>))
                           @@ (<<"h","a","s","A","p","i","K","e","y">> :> Bool(FALSE))), FALSE)
  ELSE IF req.api.kind = "error"
    THEN Throw(req.api.isError, req.api.message, TRUE)
  ELSE LET responseText ==
             IF req.api.content # <<>> /\ req.api.content[1].type = "text"
               THEN req.api.content[1].text ELSE <<"N","o"," ","t","e","x","t"," ","r","e","s","p","o","n","s","e">>
       IN Return(200,
            Obj((<<"s","u","c","c","e","s","s">> :> Bool(TRUE))
                  @@ (<<"m","e","s","s","a","g","e">> :> Str(<<"A","n","t","h","r","o","p","i","c"," ","A","P","I"," ","t","e","s","t"," ","s","u","c","c","e","s","s","f","u","l">>))
                  @@ (<<"r","e","s","p","o","n","s","e">> :> Str(responseText))
                  @@ (<<"m","o","d","e","l">> :> Str(<<"c","l","a","u","d","e","-","3","-","h","a","i","k","u","-","2","0","2","4","0","3","0","7">>))
                  @@ (<<"u","s","a","g","e">> :> Obj((<<"i","n","p","u","t","_","t","o","k","e","n","s">> :> Num(1))
                                        @@ (<<"o","u","t","p","u","t","_","t","o","k","e","n","s">> :> Num(1))))
                  @@ (<<"t","i","m","e","s","t","a","m","p">> :> Timestamp)),
            TRUE)

\* the catch block of GET (the stack is cut to its first line)
TestAnthropicCatchBlock(e) ==
  LET errorDetails == IF e.isError THEN e.message ELSE <<"U","n","k","n","o","w","n"," ","e","r","r","o","r">>
      fullError ==
        IF e.isError
          THEN Obj((<<"n","a","m","e">> :> Str(<<"E","r","r","o","r">>)) @@ (<<"m","e","s","s","a","g","e">> :> Str(e.message))
                     @@ (<<"s","t","a","c","k">> :> Arr(<<Str(<<"E","r","r","o","r",":"," ">> \o e.message)>>)))
          ELSE Null
      statusCode ==
        IF ~e.isError THEN 500
        ELSE IF \/ Includes(e.message, <<"a","u","t","h","e","n","t","i","c","a","t","i","o","n">>)
                \/ Includes(e.message, <<"A","P","I"," ","k","e","y">>)
                \/ Includes(e.message, <<"x","-","a","p","i","-","k","e","y">>) THEN 401
        ELSE IF Includes(e.message, <<"r","a","t","e"," ","l","i","m","i","t">>) THEN 429
        ELSE IF Includes(e.message, <<"m","o","d","e","l">>) THEN 400
        ELSE 500
  IN Return(statusCode,
       Obj((<<"s","u","c","c","e","s","s">> :> Bool(FALSE))
             @@ (<<"e","r","r","o","r">> :> Str(<<"A","n","t","h","r","o","p","i","c"," ","A","P","I"," ","t","e","s","t"," ","f","a","i","l","e","d">>))
             @@ (<<"d","e","t","a","i","l","s">> :> Str(errorDetails))
             @@ (<<"f","u","l","l","E","r","r","o","r">> :> fullError)
             @@ (<<"t","i","m","e","s","t","a","m","p">> :> Timestamp)),
       e.called)

TestAnthropicGET(req) ==
  LET r == TestAnthropicTryBlock(req)
  IN IF r.kind = "throw" THEN TestAnthropicCatchBlock(r) ELSE r
(***************************************************************************)
(* services/api.ts: what claudeApi.analyzeUrl makes of the HTTP response   *)
(***************************************************************************)
Resolved(data) == [kind |-> "resolved", data |-> data]
Rejected(message) == [kind |-> "rejected", message |-> message]

\* body.f || dflt of a response body field
BodyFieldOr(v, dflt) == IF Falsy(v) THEN dflt ELSE v.v

\* ApiClient.handleError of a response with an error status
handleError(status, body) ==
  IF status = 400 THEN BodyFieldOr(body.message, VALIDATION_ERROR)
  ELSE IF status = 401 THEN UNAUTHORIZED
  ELSE IF status = 404 THEN <<"R","e","s","o","u","r","c","e"," ","n","o","t"," ","f","o","u","n","d">>
  ELSE IF status = 500 THEN SERVER_ERROR
  ELSE IF status = 503 THEN <<"S","e","r","v","i","c","e"," ","t","e","m","p","o","r","a","r","i","l","y"," ","u","n","a","v","a","i","l","a","b","l","e">>
  ELSE BodyFieldOr(body.message, UNKNOWN_ERROR)

\* ApiClient.makeRequest of the response of POST /api/claude/analyze
makeRequest(response) ==
  IF response.status = 200
    THEN (IF response.body.success THEN Resolved(response.body.data)
          ELSE Rejected(BodyFieldOr(response.body.error, UNKNOWN_ERROR)))
  ELSE Rejected(handleError(response.status, response.body))

(***************************************************************************)
(* components/GenerativeMCPApp.tsx                                         *)
(***************************************************************************)
PredictiveAction(action, context) ==
  [action |-> Str(action), context |-> Str(context)]

Server(name, type, tools, actions) ==
  [name |-> Str(name), type |-> type,
   tools |-> [i \in 1..Len(tools) |-> Str(tools[i])],
   predictiveActions |-> actions, toolSchemas |-> <<>>,
   aiGenerated |-> FALSE, baseUrl |-> Undefined]

\* mcpDirectory[serverUrl] (the parameter schemas of the entries are left out)
mcpDirectory(serverUrl) ==
  IF serverUrl = <<"g","i","t","h","u","b",".","c","o","m">> THEN
    Server(<<"G","i","t","H","u","b">>, <<"c","o","d","e">>,
      <<<<"c","r","e","a","t","e","-","r","e","p","o">>, <<"l","i","s","t","-","r","e","p","o","s">>, <<"s","e","a","r","c","h","-","c","o","d","e">>, <<"m","a","n","a","g","e","-","i","s","s","u","e","s">>,
        <<"c","r","e","a","t","e","-","p","r">>, <<"v","i","e","w","-","c","o","m","m","i","t","s">>>>,
      <<PredictiveAction(<<"c","r","e","a","t","e","-","r","e","p","o">>, <<"S","t","a","r","t"," ","a"," ","n","e","w"," ","p","r","o","j","e","c","t">>),
        PredictiveAction(<<"l","i","s","t","-","r","e","p","o","s">>, <<"B","r","o","w","s","e"," ","e","x","i","s","t","i","n","g"," ","r","e","p","o","s","i","t","o","r","i","e","s">>),
        PredictiveAction(<<"s","e","a","r","c","h","-","c","o","d","e">>, <<"F","i","n","d"," ","s","p","e","c","i","f","i","c"," ","c","o","d","e"," ","p","a","t","t","e","r","n","s">>)>>)
  ELSE IF serverUrl = <<"n","o","t","i","o","n",".","s","o">> THEN
    Server(<<"N","o","t","i","o","n">>, <<"k","n","o","w","l","e","d","g","e">>,
      <<<<"c","r","e","a","t","e","-","p","a","g","e">>, <<"s","e","a","r","c","h","-","c","o","n","t","e","n","t">>, <<"u","p","d","a","t","e","-","d","a","t","a","b","a","s","e">>,
        <<"g","e","t","-","a","n","a","l","y","t","i","c","s">>, <<"m","a","n","a","g","e","-","t","e","m","p","l","a","t","e","s">>>>,
      <<PredictiveAction(<<"c","r","e","a","t","e","-","p","a","g","e">>, <<"S","t","a","r","t"," ","d","o","c","u","m","e","n","t","i","n","g">>),
        PredictiveAction(<<"s","e","a","r","c","h","-","c","o","n","t","e","n","t">>, <<"F","i","n","d"," ","e","x","i","s","t","i","n","g"," ","n","o","t","e","s">>)>>)
  ELSE IF serverUrl = <<"s","l","a","c","k",".","c","o","m">> THEN
    Server(<<"S","l","a","c","k">>, <<"c","o","m","m","u","n","i","c","a","t","i","o","n">>,
      <<<<"s","e","n","d","-","m","e","s","s","a","g","e">>, <<"c","r","e","a","t","e","-","c","h","a","n","n","e","l">>, <<"s","c","h","e","d","u","l","e","-","m","e","s","s","a","g","e">>,
        <<"g","e","t","-","a","n","a","l","y","t","i","c","s">>, <<"m","a","n","a","g","e","-","u","s","e","r","s">>>>,
      <<PredictiveAction(<<"s","e","n","d","-","m","e","s","s","a","g","e">>, <<"C","o","m","m","u","n","i","c","a","t","e"," ","w","i","t","h"," ","t","e","a","m">>),
        PredictiveAction(<<"c","r","e","a","t","e","-","c","h","a","n","n","e","l">>, <<"O","r","g","a","n","i","z","e"," ","c","o","n","v","e","r","s","a","t","i","o","n","s">>)>>)
  ELSE IF serverUrl = <<"d","a","t","a",".","l","o","c","a","l">> THEN
    Server(<<"D","a","t","a"," ","A","n","a","l","y","s","i","s">>, <<"a","n","a","l","y","t","i","c","s">>,
      <<<<"i","m","p","o","r","t","-","d","a","t","a">>, <<"a","n","a","l","y","z","e","-","d","a","t","a","s","e","t">>, <<"c","r","e","a","t","e","-","v","i","s","u","a","l","i","z","a","t","i","o","n">>,
        <<"e","x","p","o","r","t","-","r","e","s","u","l","t","s">>, <<"r","u","n","-","q","u","e","r","y">>>>,
      <<PredictiveAction(<<"i","m","p","o","r","t","-","d","a","t","a">>, <<"L","o","a","d"," ","y","o","u","r"," ","d","a","t","a","s","e","t">>),
        PredictiveAction(<<"a","n","a","l","y","z","e","-","d","a","t","a","s","e","t">>, <<"E","x","p","l","o","r","e"," ","d","a","t","a"," ","p","a","t","t","e","r","n","s">>),
        PredictiveAction(<<"c","r","e","a","t","e","-","v","i","s","u","a","l","i","z","a","t","i","o","n">>, <<"G","e","n","e","r","a","t","e"," ","c","h","a","r","t","s"," ","a","n","d"," ","g","r","a","p","h","s">>)>>)
  ELSE Undefined

\* popularMCPs[i].url
popularMCPs == <<<<"g","i","t","h","u","b",".","c","o","m">>, <<"n","o","t","i","o","n",".","s","o">>, <<"s","l","a","c","k",".","c","o","m">>, <<"d","a","t","a",".","l","o","c","a","l">>>>

\* the elements of an array value, none for a value that has no map to call
Elements(v) == IF v.t = "arr" THEN v.v ELSE <<>>

\* aiGeneratedServer of connectToMCPServer, from the analysis received
AiGeneratedServer(analysis, serverUrl) ==
  LET tools == Elements(Get(analysis, <<"t","o","o","l","s">>))
      sugg == Elements(Get(analysis, <<"s","u","g","g","e","s","t","i","o","n","s">>))
      name == IF Falsy(Get(analysis, <<"a","n","a","l","y","s","i","s">>))
                THEN Str(<<"A","I"," ","G","e","n","e","r","a","t","e","d"," ","S","e","r","v","e","r">>) ELSE Get(analysis, <<"a","n","a","l","y","s","i","s">>)
  IN [name |-> name, type |-> <<"a","i","-","g","e","n","e","r","a","t","e","d">>,
      tools |-> [i \in 1..Len(tools) |-> Get(tools[i], <<"i","d">>)],
      predictiveActions |->
        [i \in 1..Len(sugg) |->
           [action |-> Str(<<"a","c","t","i","o","n","-">> \o NatToString(i - 1)), context |-> sugg[i]]],
      toolSchemas |->
        [k \in {Get(tools[i], <<"i","d">>).v : i \in 1..Len(tools)} |->
           LET tool == tools[CHOOSE i \in 1..Len(tools) :
                               /\ Get(tools[i], <<"i","d">>).v = k
                               /\ \A j \in (i + 1)..Len(tools) :
                                    Get(tools[j], <<"i","d">>).v # k]
           IN [name |-> Get(tool, <<"i","d">>),
               description |-> Get(tool, <<"d","e","s","c","r","i","p","t","i","o","n">>),
               displayName |-> Get(tool, <<"n","a","m","e">>)]],
      aiGenerated |-> TRUE, baseUrl |-> Str(serverUrl)]

\* the state a handler reads and the updates it queues, as one record
View ==
  [url |-> url, isLoading |-> isLoading, currentServer |-> currentServer,
   suggestions |-> suggestions, tabs |-> tabs, activeTab |-> activeTab,
   predictiveActions |-> predictiveActions,
   executingAction |-> executingAction, selectedTool |-> selectedTool,
   toolResults |-> toolResults, formData |-> formData, error |-> error,
   analyses |-> analyses, timers |-> timers]

\* the state after the handler's updates are applied
Render(s) ==
  /\ url' = s.url
  /\ isLoading' = s.isLoading
  /\ currentServer' = s.currentServer
  /\ suggestions' = s.suggestions
  /\ tabs' = s.tabs
  /\ activeTab' = s.activeTab
  /\ predictiveActions' = s.predictiveActions
  /\ executingAction' = s.executingAction
  /\ selectedTool' = s.selectedTool
  /\ toolResults' = s.toolResults
  /\ formData' = s.formData
  /\ error' = s.error
  /\ analyses' = s.analyses
  /\ timers' = s.timers

RemoveAt(seq, i) == SubSeq(seq, 1, i - 1) \o SubSeq(seq, i + 1, Len(seq))

\* connectToMCPServer up to its first await: a directory entry connects at
\* once, any other url leaves a request to /api/claude/analyze in flight
connectToMCPServer(s, serverUrl) ==
  LET s1 == [s EXCEPT !.isLoading = TRUE, !.error = Null]
      predefinedServer == mcpDirectory(serverUrl)
  IN IF predefinedServer # Undefined
       THEN [s1 EXCEPT !.currentServer = predefinedServer,
                       !.predictiveActions = predefinedServer.predictiveActions,
                       !.isLoading = FALSE]
       ELSE [s1 EXCEPT !.error = Null, !.analyses = Append(@, serverUrl)]

\* connectToMCPServer from the response of its request on: analyzeUrlWithAI
\* turns a rejection into the error banner and null
connectContinuation(s, serverUrl, result) ==
  IF result.kind = "rejected"
    THEN [s EXCEPT !.error = Str(result.message), !.isLoading = FALSE]
  ELSE IF Falsy(result.data) THEN [s EXCEPT !.isLoading = FALSE]
  ELSE LET server == AiGeneratedServer(result.data, serverUrl)
       IN [s EXCEPT !.currentServer = server,
                    !.predictiveActions = server.predictiveActions,
                    !.isLoading = FALSE]

urlSuggestions(sanitizedUrl) ==
  <<sanitizedUrl \o <<"/","a","p","i">>, sanitizedUrl \o <<"/","d","o","c","s">>, sanitizedUrl \o <<"/","t","o","o","l","s">>,
    sanitizedUrl \o <<"/","a","u","t","h">>, sanitizedUrl \o <<"/","s","t","a","t","u","s">>>>

\* navigateToMCP that sets the url and the tab before it returns on a
\* validation failure
navigateToMCPSettingUrlFirst(s, mcpUrl) ==
  LET validation == validateUrl(mcpUrl)
      sanitizedUrl == sanitizeUrl(mcpUrl)
      s1 == [s EXCEPT !.url = sanitizedUrl,
                      !.tabs = [i \in 1..Len(s.tabs) |->
                                  IF s.tabs[i].active
                                    THEN [s.tabs[i] EXCEPT !.url = sanitizedUrl,
                                                           !.title = sanitizedUrl]
                                    ELSE s.tabs[i]]]
  IN IF ~validation.isValid
       THEN [s1 EXCEPT !.error = Str(Join(validation.errors, <<","," ">>))]
       ELSE connectToMCPServer(
              [s1 EXCEPT !.suggestions = urlSuggestions(sanitizedUrl)],
              sanitizedUrl)

\* navigateToMCP with a setTabs update that does not test tab.active
navigateToMCPSettingEveryTab(s, mcpUrl) ==
  LET validation == validateUrl(mcpUrl)
      sanitizedUrl == sanitizeUrl(mcpUrl)
  IN IF ~validation.isValid
       THEN [s EXCEPT !.error = Str(Join(validation.errors, <<","," ">>))]
       ELSE connectToMCPServer(
              [s EXCEPT !.url = sanitizedUrl,
                        !.tabs = [i \in 1..Len(s.tabs) |->
                                    [s.tabs[i] EXCEPT !.url = sanitizedUrl,
                                                      !.title = sanitizedUrl]],
                        !.suggestions = urlSuggestions(sanitizedUrl)],
              sanitizedUrl)

navigateToMCP(s, mcpUrl) ==
  LET validation == validateUrl(mcpUrl)
      sanitizedUrl == sanitizeUrl(mcpUrl)
  IN IF ~validation.isValid
       THEN [s EXCEPT !.error = Str(Join(validation.errors, <<","," ">>))]
       ELSE connectToMCPServer(
              [s EXCEPT !.url = sanitizedUrl,
                        !.tabs = [i \in 1..Len(s.tabs) |->
                                    IF s.tabs[i].active
                                      THEN [s.tabs[i] EXCEPT !.url = sanitizedUrl,
                                                             !.title = sanitizedUrl]
                                      ELSE s.tabs[i]],
                        !.suggestions = urlSuggestions(sanitizedUrl)],
              sanitizedUrl)

\* selectTab with a setTabs update that activates the tab and leaves the
\* others as they are
selectTabKeepingActive(s, c, tabId) ==
  LET s1 == [s EXCEPT !.tabs = [i \in 1..Len(s.tabs) |->
                                  [s.tabs[i] EXCEPT !.active = (@ \/ s.tabs[i].id = tabId)]],
                      !.activeTab = tabId]
      found == {i \in 1..Len(c.tabs) : c.tabs[i].id = tabId}
  IN IF found # {} /\ c.tabs[CHOOSE i \in found : TRUE].url # <<>>
       THEN LET selectedTab == c.tabs[CHOOSE i \in found : TRUE]
            IN connectToMCPServer([s1 EXCEPT !.url = selectedTab.url],
                                  selectedTab.url)
       ELSE [s1 EXCEPT !.url = <<>>, !.currentServer = Null,
                       !.predictiveActions = <<>>]

\* selectTab, where c is the state the handler's closure was rendered from:
\* tabs.find reads c.tabs, the queued setTabs updates apply to s.tabs
selectTab(s, c, tabId) ==
  LET s1 == [s EXCEPT !.tabs = [i \in 1..Len(s.tabs) |->
                                  [s.tabs[i] EXCEPT !.active = (s.tabs[i].id = tabId)]],
                      !.activeTab = tabId]
      found == {i \in 1..Len(c.tabs) : c.tabs[i].id = tabId}
  IN IF found # {} /\ c.tabs[CHOOSE i \in found : TRUE].url # <<>>
       THEN LET selectedTab == c.tabs[CHOOSE i \in found : TRUE]
            IN connectToMCPServer([s1 EXCEPT !.url = selectedTab.url],
                                  selectedTab.url)
       ELSE [s1 EXCEPT !.url = <<>>, !.currentServer = Null,
                       !.predictiveActions = <<>>]

MaxId(ts) == CHOOSE m \in {ts[i].id : i \in 1..Len(ts)} :
               \A i \in 1..Len(ts) : ts[i].id <= m

\* createNewTab that numbers the new tab by the count of tabs
createNewTabCountingTabs(s) ==
  LET newTabId == Len(s.tabs) + 1
      newTab == [id |-> newTabId, title |-> <<"N","e","w"," ","T","a","b">>, url |-> <<>>,
                 active |-> FALSE]
  IN selectTab([s EXCEPT !.tabs = Append(@, newTab)], s, newTabId)

createNewTab(s) ==
  LET newTabId == MaxId(s.tabs) + 1
      newTab == [id |-> newTabId, title |-> <<"N","e","w"," ","T","a","b">>, url |-> <<>>,
                 active |-> FALSE]
  IN selectTab([s EXCEPT !.tabs = Append(@, newTab)], s, newTabId)

\* closeTab that empties the last tab instead of returning
closeTabResettingLast(s, tabId) ==
  IF Len(s.tabs) = 1
    THEN [s EXCEPT !.url = <<>>, !.currentServer = Null, !.predictiveActions = <<>>,
                   !.tabs = [i \in 1..Len(s.tabs) |->
                               [s.tabs[i] EXCEPT !.url = <<>>, !.title = <<"N","e","w"," ","T","a","b">>]]]
  ELSE LET tabIndex == CHOOSE i \in 1..Len(s.tabs) : s.tabs[i].id = tabId
           wasActive == s.tabs[tabIndex].active
           remainingTabs == SelectSeq(s.tabs, LAMBDA t : t.id # tabId)
           s1 == [s EXCEPT !.tabs = remainingTabs]
       IN IF wasActive
            THEN selectTab(s1, s, remainingTabs[IF tabIndex - 1 > 1 THEN tabIndex - 1 ELSE 1].id)
            ELSE s1

\* closeTab that activates remainingTabs[Math.min(tabIndex, length - 1)], the
\* tab to the right of the closed one
closeTabActivatingRight(s, tabId) ==
  IF Len(s.tabs) = 1 THEN s
  ELSE LET tabIndex == CHOOSE i \in 1..Len(s.tabs) : s.tabs[i].id = tabId
           wasActive == s.tabs[tabIndex].active
           remainingTabs == SelectSeq(s.tabs, LAMBDA t : t.id # tabId)
           s1 == [s EXCEPT !.tabs = remainingTabs]
       IN IF wasActive
            THEN selectTab(s1, s, remainingTabs[IF tabIndex < Len(remainingTabs)
                                                  THEN tabIndex
                                                  ELSE Len(remainingTabs)].id)
            ELSE s1

closeTab(s, tabId) ==
  IF Len(s.tabs) = 1 THEN s
  ELSE LET tabIndex == CHOOSE i \in 1..Len(s.tabs) : s.tabs[i].id = tabId
           wasActive == s.tabs[tabIndex].active
           remainingTabs == SelectSeq(s.tabs, LAMBDA t : t.id # tabId)
           s1 == [s EXCEPT !.tabs = remainingTabs]
       IN IF wasActive
            THEN selectTab(s1, s, remainingTabs[IF tabIndex - 1 > 1 THEN tabIndex - 1 ELSE 1].id)
            ELSE s1

\* `Tool "${toolName}" executed successfully with parameters: ${JSON.stringify(parameters, null, 2)}`
\* (JSON.stringify of an object with no property is "{}")
ExecutionResult(toolName, parameters) ==
  <<"T","o","o","l"," ","\"">> \o toolName.v \o <<"\""," ","e","x","e","c","u","t","e","d"," ","s","u","c","c","e","s","s","f","u","l","l","y"," ","w","i","t","h"," ","p","a","r","a","m","e","t","e","r","s",":"," ">>
    \o (IF parameters.v = <<>> THEN <<"{","}">> ELSE <<"{",".",".",".","}">>)

\* formData[tool] || {}
ParametersOf(s, tool) ==
  IF tool.v \in DOMAIN s.formData THEN s.formData[tool.v] ELSE EmptyObj

\* executeToolWithAI up to its await of the two-second timer
executeToolWithAI(s, toolName, parameters) ==
  [s EXCEPT !.executingAction = toolName,
            !.timers = Append(@, [toolName |-> toolName, parameters |-> parameters])]

\* executeToolWithAI from the timer on, storing the result without the
\* spread of the results there were
executeContinuationDroppingOthers(s, toolName, parameters) ==
  [s EXCEPT !.toolResults = (toolName.v :> Str(ExecutionResult(toolName, parameters))),
            !.executingAction = Null]

\* executeToolWithAI from the timer on
executeContinuation(s, toolName, parameters) ==
  [s EXCEPT !.toolResults = (toolName.v :> Str(ExecutionResult(toolName, parameters))) @@ @,
            !.executingAction = Null]

executeAction(s, action) ==
  IF s.currentServer = Null THEN s
  ELSE executeToolWithAI([s EXCEPT !.executingAction = action], action,
                         ParametersOf(s, action))

handleExecuteTool(s) ==
  IF s.selectedTool = Null \/ s.currentServer = Null THEN s
  ELSE executeToolWithAI(s, s.selectedTool, ParametersOf(s, s.selectedTool))

(***************************************************************************)
(* Bounds and the inputs drawn                                             *)
(***************************************************************************)
MaxTabId == 3      \* createNewTab is taken while the largest tab id is below
MaxAnalyses == 2   \* requests to /api/claude/analyze in flight
MaxTimers == 2     \* execution timers pending

\* what the user types into the address bar
TypedUrls == {<<"g","i","t","h","u","b",".","c","o","m">>, <<" ","h","t","t","p","s",":","/","/","a",".","i","o">>}

\* the urls connectToMCPServer can be called with
ConnectUrls == {sanitizeUrl(u) : u \in TypedUrls}

GoodCompletion ==
  <<"BACKTICK","BACKTICK","BACKTICK","j","s","o","n","\n","{","\"","a","n","a","l","y","s","i","s","\"",":","\"","x","\"",",","\"","s","u","g","g","e","s","t","i","o","n","s","\"",":","[","\"","s","\"","]",",","\"","t","o","o","l","s","\"",":","[","{","\"","i","d","\"",":","\"","t","1","\"",",","\"","n","a","m","e","\"",":","\"","T","\"",",","\"","d","e","s","c","r","i","p","t","i","o","n","\"",":","\"","d","\"",",","\"","c","a","t","e","g","o","r","y","\"",":","\"","c","\"",",","\"","a","c","t","i","o","n","\"",":","\"","a","\"","}",",","{","\"","i","d","\"",":","\"","t","2","\"","}","]","}","\n","BACKTICK","BACKTICK","BACKTICK">>
ProseCompletion == <<"I"," ","c","a","n","n","o","t"," ","a","n","a","l","y","z","e"," ","t","h","i","s"," ","p","a","g","e",".">>

Message(text) == [kind |-> "message", content |-> <<[type |-> "text", text |-> text]>>]
ApiError(message) == [kind |-> "error", isError |-> TRUE, message |-> message]

\* what the completion API does with a request of the view
ViewApiOutcomes ==
  <<Message(GoodCompletion), Message(ProseCompletion),
    ApiError(<<"4","2","9"," ","r","a","t","e"," ","l","i","m","i","t"," ","e","x","c","e","e","d","e","d">>)>>

\* the request axios posts for claudeApi.analyzeUrl({ url }), served with the
\* API key configured
AnalyzeRequest(serverUrl, api) ==
  [apiKey |-> TRUE,
   body |-> [kind |-> "json", val |-> Obj((<<"u","r","l">> :> Str(serverUrl)))],
   api |-> api]

\* claudeApi.analyzeUrl({ url }) for each url and each outcome of the API
analyzeUrl ==
  [u \in ConnectUrls, k \in 1..Len(ViewApiOutcomes) |->
     makeRequest(POST(AnalyzeRequest(u, ViewApiOutcomes[k])))]

(***************************************************************************)
(* The view-state machine: one action per event                            *)
(***************************************************************************)
Event(name, arg) == [name |-> name, arg |-> arg]

InitView ==
  /\ url = <<>>
  /\ isLoading = FALSE
  /\ currentServer = Null
  /\ suggestions = <<>>
  /\ tabs = <<[id |-> 1, title |-> <<"N","e","w"," ","T","a","b">>, url |-> <<>>, active |-> TRUE]>>
  /\ activeTab = 1
  /\ predictiveActions = <<>>
  /\ executingAction = Null
  /\ selectedTool = Null
  /\ toolResults = <<>>
  /\ formData = <<>>
  /\ error = Null
  /\ analyses = <<>>
  /\ timers = <<>>
  /\ op = Event("init", Null)

Init == InitView /\ input = Null /\ output = Null

\* onChange of the address bar
SetUrl(u) ==
  /\ Render([View EXCEPT !.url = u])
  /\ op' = Event("setUrl", Str(u))
  /\ UNCHANGED <<input, output>>

\* the navigate button, disabled while isLoading
NavigateButton ==
  /\ ~isLoading
  /\ Len(analyses) < MaxAnalyses
  /\ Render(navigateToMCP(View, url))
  /\ op' = Event("navigateToMCP", Str(url))
  /\ UNCHANGED <<input, output>>

\* Enter in the address bar
NavigateEnter ==
  /\ Len(analyses) < MaxAnalyses
  /\ Render(navigateToMCP(View, url))
  /\ op' = Event("navigateToMCP", Str(url))
  /\ UNCHANGED <<input, output>>

\* a Popular MCP Servers card, shown while no server is connected
PopularClick(i) ==
  /\ currentServer = Null
  /\ Len(analyses) < MaxAnalyses
  /\ Render(navigateToMCP(View, popularMCPs[i]))
  /\ op' = Event("navigateToMCP", Str(popularMCPs[i]))
  /\ UNCHANGED <<input, output>>

\* the response of the i-th request in flight arrives; the event records what
\* claudeApi.analyzeUrl settled with
ResolveAnalysis(i, k) ==
  /\ i \in 1..Len(analyses)
  /\ Render(connectContinuation([View EXCEPT !.analyses = RemoveAt(@, i)],
                                analyses[i], analyzeUrl[analyses[i], k]))
  /\ op' = [name |-> "resolveAnalysis", arg |-> Str(analyses[i]),
            result |-> analyzeUrl[analyses[i], k]]
  /\ UNCHANGED <<input, output>>

CreateNewTab ==
  /\ MaxId(tabs) < MaxTabId
  /\ Len(analyses) < MaxAnalyses
  /\ Render(createNewTab(View))
  /\ op' = Event("createNewTab", Num(MaxId(tabs) + 1))
  /\ UNCHANGED <<input, output>>

\* closeTab of a tab; the x of a tab is rendered while there are two tabs or
\* more, the handler tests the number of tabs itself
CloseTab(i) ==
  /\ i \in 1..Len(tabs)
  /\ Len(analyses) < MaxAnalyses
  /\ Render(closeTab(View, tabs[i].id))
  /\ op' = Event("closeTab", Num(tabs[i].id))
  /\ UNCHANGED <<input, output>>

SelectTab(i) ==
  /\ i \in 1..Len(tabs)
  /\ Len(analyses) < MaxAnalyses
  /\ Render(selectTab(View, View, tabs[i].id))
  /\ op' = Event("selectTab", Num(tabs[i].id))
  /\ UNCHANGED <<input, output>>

\* the x of the error banner
DismissError ==
  /\ error # Null
  /\ Render([View EXCEPT !.error = Null])
  /\ op' = Event("dismissError", Null)
  /\ UNCHANGED <<input, output>>

\* a card of the Available Tools grid
SelectTool ==
  /\ currentServer # Null
  /\ \E i \in 1..Len(currentServer.tools) :
       /\ Render([View EXCEPT !.selectedTool = currentServer.tools[i]])
       /\ op' = Event("selectTool", currentServer.tools[i])
  /\ UNCHANGED <<input, output>>

\* the Close button of the tool interface
CloseTool ==
  /\ currentServer # Null
  /\ selectedTool # Null
  /\ Render([View EXCEPT !.selectedTool = Null])
  /\ op' = Event("closeTool", Null)
  /\ UNCHANGED <<input, output>>

\* the Execute Tool button, disabled while executingAction === selectedTool
ExecuteToolButton ==
  /\ currentServer # Null
  /\ selectedTool # Null
  /\ executingAction # selectedTool
  /\ Len(timers) < MaxTimers
  /\ Render(handleExecuteTool(View))
  /\ op' = Event("handleExecuteTool", selectedTool)
  /\ UNCHANGED <<input, output>>

\* a click on a Suggested Actions card, shown while no tool is selected (the
\* onClick is on the card, not on its button)
ActionCardClick ==
  /\ currentServer # Null
  /\ selectedTool = Null
  /\ Len(timers) < MaxTimers
  /\ \E i \in 1..Len(predictiveActions) :
       /\ Render(executeAction(View, predictiveActions[i].action))
       /\ op' = Event("executeAction", predictiveActions[i].action)
  /\ UNCHANGED <<input, output>>

\* the oldest timer fires (equal delays fire in the order they were set)
TimerFires ==
  /\ timers # <<>>
  /\ Render(executeContinuation([View EXCEPT !.timers = Tail(@)],
                                timers[1].toolName, timers[1].parameters))
  /\ op' = Event("timerFires", timers[1].toolName)
  /\ UNCHANGED <<input, output>>

\* navigation, where the completion API answers with the outcomes K (a click
\* on an entry of the suggestions dropdown is setUrl and navigateToMCP of a
\* url of the form navigateToMCP accepts, as SetUrl and NavigateEnter are)
Navigation(K) ==
  \/ \E u \in TypedUrls : SetUrl(u)
  \/ NavigateButton
  \/ NavigateEnter
  \/ \E i \in 1..Len(popularMCPs) : PopularClick(i)
  \/ \E i \in 1..MaxAnalyses, k \in K : ResolveAnalysis(i, k)
  \/ DismissError

\* tabs and navigation
NextTabs ==
  \/ Navigation(1..Len(ViewApiOutcomes))
  \/ CreateNewTab
  \/ \E i \in 1..MaxTabId : CloseTab(i)
  \/ \E i \in 1..MaxTabId : SelectTab(i)

SpecTabs == Init /\ [][NextTabs]_vars

\* navigation, tool selection and execution in one tab
NextExec ==
  \/ Navigation({1, 3})
  \/ SelectTool
  \/ CloseTool
  \/ ExecuteToolButton
  \/ ActionCardClick
  \/ TimerFires

SpecExec == Init /\ [][NextExec]_vars


\* the Execute Tool button, pressed while the first tab is the active one
ExecuteInFirstTab ==
  /\ activeTab = 1
  /\ ExecuteToolButton

\* the + of the tab bar, pressed while no execution is pending
CreateNewTabIdle ==
  /\ timers = <<>>
  /\ CreateNewTab

\* a click on a tab, while no execution is pending
SelectTabIdle(i) ==
  /\ timers = <<>>
  /\ SelectTab(i)

\* a session over several tabs in which every tool is run, from the click to
\* the result, while the first tab is the active one
NextIso ==
  \/ Navigation({1})
  \/ SelectTool
  \/ ExecuteInFirstTab
  \/ TimerFires
  \/ CreateNewTabIdle
  \/ \E i \in 1..MaxTabId : SelectTabIdle(i)

SpecIso == Init /\ [][NextIso]_vars

\* one server connected with the navigate button, its tools and suggested
\* actions run
NextRun ==
  \/ \E u \in TypedUrls : SetUrl(u)
  \/ NavigateButton
  \/ \E i \in 1..MaxAnalyses : ResolveAnalysis(i, 1)
  \/ SelectTool
  \/ CloseTool
  \/ ExecuteToolButton
  \/ ActionCardClick
  \/ TimerFires

\* a timer that was set fires: setTimeout runs its callback once the delay
\* has passed
SpecRun == Init /\ [][NextRun]_vars /\ WF_vars(TimerFires)

\* the urls typed in a session that visits one address after the other
VisitUrls == {<<"h","t","t","p","s",":","/","/","g","i","t","h","u","b",".","c","o","m">>, <<" ","h","t","t","p","s",":","/","/","a",".","i","o">>}

\* one tab, an address visited after the other with the navigate button,
\* which is disabled while a request is in flight
NextVisit ==
  \/ \E u \in VisitUrls : SetUrl(u)
  \/ NavigateButton
  \/ \E i \in 1..MaxAnalyses, k \in 1..Len(ViewApiOutcomes) : ResolveAnalysis(i, k)
  \/ DismissError

SpecVisit == Init /\ [][NextVisit]_vars
(***************************************************************************)
(* The validator and the sanitizer applied to drawn strings                *)
(***************************************************************************)
MaxPieces == 3     \* pieces a drawn url string is concatenated from

UrlPieces ==
  {<<" ">>, <<"\n">>, <<"h","t","t","p",":","/","/">>, <<"h","t","t","p","s",":","/","/">>, <<"a">>, <<"h","t","t","p",":","/">>, <<"H","T","T","P",":","/","/">>, <<"x",".","i","o">>}

RECURSIVE Concatenations(_)
Concatenations(n) ==
  IF n = 0 THEN {<<>>}
  ELSE Concatenations(n - 1)
         \cup {p \o r : p \in UrlPieces, r \in Concatenations(n - 1)}

UrlInputs == Concatenations(MaxPieces)

InitUrl == InitView /\ input \in UrlInputs /\ output = Null

CallSanitizeUrl ==
  /\ op.name = "init"
  /\ output' = [sanitized |-> Str(sanitizeUrl(input)), validation |-> Null]
  /\ op' = Event("sanitizeUrl", Str(input))
  /\ UNCHANGED <<viewVars, analyses, timers, input>>

CallValidateUrl ==
  /\ op.name = "init"
  /\ output' = [sanitized |-> Null, validation |-> validateUrl(input)]
  /\ op' = Event("validateUrl", Str(input))
  /\ UNCHANGED <<viewVars, analyses, timers, input>>

\* the sanitized value is validated before it is accepted
ValidateSanitized ==
  /\ op.name = "sanitizeUrl"
  /\ output' = [output EXCEPT !.validation = validateUrl(output.sanitized.v)]
  /\ op' = Event("validateSanitized", output.sanitized)
  /\ UNCHANGED <<viewVars, analyses, timers, input>>

NextUrl == CallSanitizeUrl \/ CallValidateUrl \/ ValidateSanitized

SpecUrl == InitUrl /\ [][NextUrl]_vars

(***************************************************************************)
(* POST /api/claude/analyze applied to drawn requests                      *)
(***************************************************************************)
MaxTools == 2      \* entries of a drawn tools list
MaxKeywords == 2   \* pieces the message of a drawn error is made of

\* JSON.stringify(v) of a value JSON.parse can yield; the members of an
\* object are written in the order of KnownKeys
KnownKeys ==
  <<<<"a","n","a","l","y","s","i","s">>, <<"s","u","g","g","e","s","t","i","o","n","s">>, <<"t","o","o","l","s">>, <<"i","d">>, <<"n","a","m","e">>, <<"d","e","s","c","r","i","p","t","i","o","n">>,
    <<"c","a","t","e","g","o","r","y">>, <<"a","c","t","i","o","n">>, <<"p","a","r","a","m","e","t","e","r","s">>, <<"u","r","l">>>>

RECURSIVE Stringify(_)
Stringify(v) ==
  IF v.t = "null" THEN <<"n","u","l","l">>
  ELSE IF v.t = "bool" THEN (IF v.v THEN <<"t","r","u","e">> ELSE <<"f","a","l","s","e">>)
  ELSE IF v.t = "num" THEN NatToString(v.v)
  ELSE IF v.t = "str" THEN <<"\"">> \o v.v \o <<"\"">>
  ELSE IF v.t = "arr"
    THEN <<"[">> \o Join([i \in 1..Len(v.v) |-> Stringify(v.v[i])], <<",">>) \o <<"]">>
  ELSE LET keys == SelectSeq(KnownKeys, LAMBDA k : k \in DOMAIN v.v)
       IN <<"{">> \o Join([i \in 1..Len(keys) |->
                          <<"\"">> \o keys[i] \o <<"\"">> \o <<":">>
                            \o Stringify(v.v[keys[i]])], <<",">>) \o <<"}">>

FullTool == Tool(<<"t","1">>, <<"T">>, <<"d">>, <<"c">>, <<"a">>)

\* the entries a drawn tools list is made of
ToolShapes ==
  <<FullTool,
    Obj(With(FullTool.v, <<"p","a","r","a","m","e","t","e","r","s">>, EmptyObj)),
    EmptyObj,
    Obj((<<"i","d">> :> Str(<<>>)) @@ (<<"n","a","m","e">> :> Str(<<"N">>))),
    Obj((<<"i","d">> :> Str(<<"t","o","o","l","-","1">>))),
    Null,
    Str(<<"a","b">>)>>

RECURSIVE IndexLists(_, _)
\* the sequences of at most n indices in 1..m
IndexLists(n, m) ==
  IF n = 0 THEN {<<>>}
  ELSE IndexLists(n - 1, m)
         \cup {<<i>> \o l : i \in 1..m, l \in IndexLists(n - 1, m)}

ToolLists == IndexLists(MaxTools, Len(ToolShapes))

ToolsValue(l) == Arr([i \in 1..Len(l) |-> ToolShapes[l[i]]])

\* values of the tools member that are no array
OtherTools == <<Undefined, Null, Str(<<"x">>), Num(0)>>

\* the object a drawn completion holds
AnalysisObject(withAnalysis, tools) ==
  Obj((IF withAnalysis
         THEN (<<"a","n","a","l","y","s","i","s">> :> Str(<<"x">>)) @@ (<<"s","u","g","g","e","s","t","i","o","n","s">> :> Arr(<<>>))
         ELSE <<>>)
      @@ (IF tools = Undefined THEN <<>> ELSE (<<"t","o","o","l","s">> :> tools)))

\* what a drawn completion puts around the object: nothing, a markdown fence,
\* prose without braces, prose with braces
Wraps ==
  <<[pre |-> <<>>, suf |-> <<>>],
    [pre |-> <<"BACKTICK","BACKTICK","BACKTICK","j","s","o","n","\n">>, suf |-> <<"\n","BACKTICK","BACKTICK","BACKTICK">>],
    [pre |-> <<"S","u","r","e",":"," ">>, suf |-> <<" ","o","k">>],
    [pre |-> <<"a","{","b"," ">>, suf |-> <<>>],
    [pre |-> <<>>, suf |-> <<" ","}">>]>>
BraceFreeWraps == {1, 2, 3}

\* drawn completions that are not an object
RawTexts ==
  <<<<>>, ProseCompletion, <<"4","2">>, <<"n","u","l","l">>, <<"[","1","]">>, <<"\"","s","\"">>, <<"{","\"","t","o","o","l","s","\"",":">>,
    <<"}"," ","{">>>>

ValidBody == [kind |-> "json", val |-> Obj((<<"u","r","l">> :> Str(<<"h","t","t","p","s",":","/","/","a",".","i","o">>)))]

\* what request.json() yields
Bodies ==
  <<ValidBody,
    [kind |-> "json", val |-> Obj((<<"u","r","l">> :> Str(<<"g","i","t","h","u","b",".","c","o","m">>)))],
    [kind |-> "json", val |-> EmptyObj],
    [kind |-> "json", val |-> Obj((<<"u","r","l">> :> Num(5)))],
    [kind |-> "json", val |-> Null],
    [kind |-> "malformed", message |-> <<"U","n","e","x","p","e","c","t","e","d"," ","e","n","d"," ","o","f"," ","J","S","O","N"," ","i","n","p","u","t">>]>>

\* what anthropic.messages.create does, other than answer with a drawn text
OtherApis ==
  <<[kind |-> "message", content |-> <<>>],
    [kind |-> "message", content |-> <<[type |-> "tool_use", text |-> <<>>]>>],
    ApiError(<<"4","0","1"," ","a","u","t","h","e","n","t","i","c","a","t","i","o","n","_","e","r","r","o","r",":"," ","i","n","v","a","l","i","d"," ","x","-","a","p","i","-","k","e","y">>),
    ApiError(<<"4","2","9"," ","r","a","t","e"," ","l","i","m","i","t"," ","e","x","c","e","e","d","e","d">>),
    ApiError(<<"C","o","n","n","e","c","t","i","o","n"," ","t","i","m","e","o","u","t">>),
    ApiError(<<"4","0","4"," ","m","o","d","e","l",":"," ","c","l","a","u","d","e","-","3","-","7","-","s","o","n","n","e","t","-","2","0","2","5","0","2","1","9"," ","n","o","t"," ","f","o","u","n","d">>),
    ApiError(<<"5","0","0"," ","o","v","e","r","l","o","a","d","e","d">>),
    [kind |-> "error", isError |-> FALSE, message |-> <<>>]>>

\* the pieces the message of an error thrown by messages.create is made of:
\* the substrings the catch block looks for, and text it does not look for
ErrorPieces ==
  <<<<"A","P","I"," ","k","e","y">>, <<"a","u","t","h","e","n","t","i","c","a","t","i","o","n">>, <<"x","-","a","p","i","-","k","e","y">>, <<"r","a","t","e"," ","l","i","m","i","t">>, <<"n","e","t","w","o","r","k">>,
    <<"t","i","m","e","o","u","t">>, <<"m","o","d","e","l">>, <<"R","a","t","e"," ","L","i","m","i","t">>, <<"o","v","e","r","l","o","a","d","e","d">>>>

\* the message made of the pieces l, one blank between two pieces
ErrorMessage(l) == Join([i \in 1..Len(l) |-> ErrorPieces[l[i]]], <<" ">>)

ErrorMessages == IndexLists(MaxKeywords, Len(ErrorPieces))

Request(apiKey, body, api) == [apiKey |-> apiKey, body |-> body, api |-> api]

\* a drawn request: req is what the handler receives, value and wrap say what
\* the completion text was made of (Null for a text that is made of none)
Drawn(req, value, wrap) == [req |-> req, value |-> value, wrap |-> wrap]

WrappedCompletion(value, w) ==
  Message(Wraps[w].pre \o Stringify(value) \o Wraps[w].suf)

InitAnalyze ==
  /\ InitView
  /\ output = Null
  /\ \/ \E b \in BOOLEAN, l \in ToolLists, w \in 1..Len(Wraps) :
          LET value == AnalysisObject(b, ToolsValue(l))
          IN input = Drawn(Request(TRUE, ValidBody, WrappedCompletion(value, w)),
                           value, w)
     \/ \E b \in BOOLEAN, i \in 1..Len(OtherTools), w \in 1..Len(Wraps) :
          LET value == AnalysisObject(b, OtherTools[i])
          IN input = Drawn(Request(TRUE, ValidBody, WrappedCompletion(value, w)),
                           value, w)
     \/ \E i \in 1..Len(RawTexts) :
          input = Drawn(Request(TRUE, ValidBody, Message(RawTexts[i])), Null, 0)
     \/ \E l \in ErrorMessages :
          input = Drawn(Request(TRUE, ValidBody, ApiError(ErrorMessage(l))), Null, 0)
     \/ \E k \in BOOLEAN, i \in 1..Len(Bodies), j \in 1..Len(OtherApis) :
          input = Drawn(Request(k, Bodies[i], OtherApis[j]), Null, 0)

CallPOST ==
  /\ op.name = "init"
  /\ output' = POST(input.req)
  /\ op' = Event("POST", Null)
  /\ UNCHANGED <<viewVars, analyses, timers, input>>

\* the normalization map applied to the tools of a successful response
NormalizeAgain ==
  /\ op.name \in {"POST", "normalizeAgain"}
  /\ output.status = 200
  /\ Get(output.body.data, <<"t","o","o","l","s">>).t = "arr"
  /\ output' = [output EXCEPT !.body.data =
                  Obj(With(@.v, <<"t","o","o","l","s">>, NormalizeTools(Get(@, <<"t","o","o","l","s">>))))]
  /\ op' = Event("normalizeAgain", Null)
  /\ UNCHANGED <<viewVars, analyses, timers, input>>

NextAnalyze == CallPOST \/ NormalizeAgain

SpecAnalyze == InitAnalyze /\ [][NextAnalyze]_vars


\* GET /api/test-anthropic in the environment of the drawn request: its API
\* key, and the outcome of the completion API
CallTestAnthropicGET ==
  /\ op.name = "init"
  /\ output' = TestAnthropicGET(input.req)
  /\ op' = Event("GET", Str(<<"/","a","p","i","/","t","e","s","t","-","a","n","t","h","r","o","p","i","c">>))
  /\ UNCHANGED <<viewVars, analyses, timers, input>>

\* the two route handlers that call the completion API
NextRoutes == CallPOST \/ CallTestAnthropicGET

SpecRoutes == InitAnalyze /\ [][NextRoutes]_vars

(***************************************************************************)
(* GET /api/mcp/servers and GET /api/mcp/tools                             *)
(***************************************************************************)
\* the servers of the servers route, each with its tools
McpServer(id, name, description, tools) ==
  Obj((<<"i","d">> :> Str(id)) @@ (<<"n","a","m","e">> :> Str(name))
        @@ (<<"d","e","s","c","r","i","p","t","i","o","n">> :> Str(description))
        @@ (<<"s","t","a","t","u","s">> :> Str(<<"c","o","n","n","e","c","t","e","d">>)) @@ (<<"t","o","o","l","s">> :> Arr(tools)))

McpServers ==
  <<McpServer(<<"b","r","o","w","s","e","r","-","t","o","o","l","s">>, <<"B","r","o","w","s","e","r"," ","T","o","o","l","s">>,
      <<"T","o","o","l","s"," ","f","o","r"," ","b","r","o","w","s","e","r"," ","a","u","t","o","m","a","t","i","o","n"," ","a","n","d"," ","w","e","b"," ","i","n","t","e","r","a","c","t","i","o","n">>,
      <<Tool(<<"n","a","v","i","g","a","t","e">>, <<"N","a","v","i","g","a","t","e">>, <<"N","a","v","i","g","a","t","e"," ","t","o"," ","a"," ","U","R","L">>, <<"n","a","v","i","g","a","t","i","o","n">>, <<"n","a","v","i","g","a","t","e">>),
        Tool(<<"c","l","i","c","k">>, <<"C","l","i","c","k"," ","E","l","e","m","e","n","t">>, <<"C","l","i","c","k"," ","o","n"," ","a"," ","p","a","g","e"," ","e","l","e","m","e","n","t">>, <<"i","n","t","e","r","a","c","t","i","o","n">>, <<"c","l","i","c","k">>),
        Tool(<<"e","x","t","r","a","c","t","-","t","e","x","t">>, <<"E","x","t","r","a","c","t"," ","T","e","x","t">>, <<"E","x","t","r","a","c","t"," ","t","e","x","t"," ","f","r","o","m"," ","p","a","g","e"," ","e","l","e","m","e","n","t","s">>, <<"d","a","t","a","-","e","x","t","r","a","c","t","i","o","n">>, <<"e","x","t","r","a","c","t">>)>>),
    McpServer(<<"a","n","a","l","y","s","i","s","-","t","o","o","l","s">>, <<"A","n","a","l","y","s","i","s"," ","T","o","o","l","s">>,
      <<"T","o","o","l","s"," ","f","o","r"," ","c","o","n","t","e","n","t"," ","a","n","a","l","y","s","i","s"," ","a","n","d"," ","d","a","t","a"," ","p","r","o","c","e","s","s","i","n","g">>,
      <<Tool(<<"a","n","a","l","y","z","e","-","c","o","n","t","e","n","t">>, <<"A","n","a","l","y","z","e"," ","C","o","n","t","e","n","t">>, <<"A","n","a","l","y","z","e"," ","p","a","g","e"," ","c","o","n","t","e","n","t"," ","a","n","d"," ","s","t","r","u","c","t","u","r","e">>, <<"a","n","a","l","y","s","i","s">>, <<"a","n","a","l","y","z","e">>),
        Tool(<<"e","x","t","r","a","c","t","-","l","i","n","k","s">>, <<"E","x","t","r","a","c","t"," ","L","i","n","k","s">>, <<"E","x","t","r","a","c","t"," ","a","l","l"," ","l","i","n","k","s"," ","f","r","o","m"," ","t","h","e"," ","p","a","g","e">>, <<"d","a","t","a","-","e","x","t","r","a","c","t","i","o","n">>, <<"e","x","t","r","a","c","t">>),
        Tool(<<"c","h","e","c","k","-","s","e","o">>, <<"S","E","O"," ","C","h","e","c","k">>, <<"C","h","e","c","k"," ","S","E","O"," ","e","l","e","m","e","n","t","s"," ","a","n","d"," ","b","e","s","t"," ","p","r","a","c","t","i","c","e","s">>, <<"a","n","a","l","y","s","i","s">>, <<"a","n","a","l","y","z","e">>)>>)>>

\* GET of the servers route: nothing in its try block throws
ServersGET ==
  Return(200, [success |-> TRUE, data |-> Arr(McpServers), error |-> Undefined,
               message |-> Str(<<"M","C","P"," ","s","e","r","v","e","r","s"," ","r","e","t","r","i","e","v","e","d"," ","s","u","c","c","e","s","s","f","u","l","l","y">>)], FALSE)

\* one entry of the parameters of a tool
Parameter(type, required, description) ==
  Obj((<<"t","y","p","e">> :> Str(type)) @@ (<<"r","e","q","u","i","r","e","d">> :> Bool(required))
        @@ (<<"d","e","s","c","r","i","p","t","i","o","n">> :> Str(description)))

WithParameters(tool, parameters) == Obj(With(tool.v, <<"p","a","r","a","m","e","t","e","r","s">>, Obj(parameters)))

\* the tools of the tools route
McpTools ==
  <<WithParameters(
      Tool(<<"n","a","v","i","g","a","t","e">>, <<"N","a","v","i","g","a","t","e">>, <<"N","a","v","i","g","a","t","e"," ","t","o"," ","a"," ","U","R","L">>, <<"n","a","v","i","g","a","t","i","o","n">>, <<"n","a","v","i","g","a","t","e">>),
      (<<"u","r","l">> :> Parameter(<<"s","t","r","i","n","g">>, TRUE, <<"U","R","L"," ","t","o"," ","n","a","v","i","g","a","t","e"," ","t","o">>))),
    WithParameters(
      Tool(<<"c","l","i","c","k">>, <<"C","l","i","c","k"," ","E","l","e","m","e","n","t">>, <<"C","l","i","c","k"," ","o","n"," ","a"," ","p","a","g","e"," ","e","l","e","m","e","n","t">>, <<"i","n","t","e","r","a","c","t","i","o","n">>, <<"c","l","i","c","k">>),
      (<<"s","e","l","e","c","t","o","r">> :> Parameter(<<"s","t","r","i","n","g">>, TRUE, <<"C","S","S"," ","s","e","l","e","c","t","o","r"," ","f","o","r"," ","t","h","e"," ","e","l","e","m","e","n","t">>))),
    WithParameters(
      Tool(<<"e","x","t","r","a","c","t","-","t","e","x","t">>, <<"E","x","t","r","a","c","t"," ","T","e","x","t">>, <<"E","x","t","r","a","c","t"," ","t","e","x","t"," ","f","r","o","m"," ","p","a","g","e"," ","e","l","e","m","e","n","t","s">>, <<"d","a","t","a","-","e","x","t","r","a","c","t","i","o","n">>, <<"e","x","t","r","a","c","t">>),
      (<<"s","e","l","e","c","t","o","r">> :> Parameter(<<"s","t","r","i","n","g">>, FALSE, <<"C","S","S"," ","s","e","l","e","c","t","o","r"," ","(","o","p","t","i","o","n","a","l",")">>))),
    Tool(<<"a","n","a","l","y","z","e","-","c","o","n","t","e","n","t">>, <<"A","n","a","l","y","z","e"," ","C","o","n","t","e","n","t">>, <<"A","n","a","l","y","z","e"," ","p","a","g","e"," ","c","o","n","t","e","n","t"," ","a","n","d"," ","s","t","r","u","c","t","u","r","e">>, <<"a","n","a","l","y","s","i","s">>, <<"a","n","a","l","y","z","e">>),
    Tool(<<"e","x","t","r","a","c","t","-","l","i","n","k","s">>, <<"E","x","t","r","a","c","t"," ","L","i","n","k","s">>, <<"E","x","t","r","a","c","t"," ","a","l","l"," ","l","i","n","k","s"," ","f","r","o","m"," ","t","h","e"," ","p","a","g","e">>, <<"d","a","t","a","-","e","x","t","r","a","c","t","i","o","n">>, <<"e","x","t","r","a","c","t">>),
    Tool(<<"c","h","e","c","k","-","s","e","o">>, <<"S","E","O"," ","C","h","e","c","k">>, <<"C","h","e","c","k"," ","S","E","O"," ","e","l","e","m","e","n","t","s"," ","a","n","d"," ","b","e","s","t"," ","p","r","a","c","t","i","c","e","s">>, <<"a","n","a","l","y","s","i","s">>, <<"a","n","a","l","y","z","e">>),
    Tool(<<"s","c","r","e","e","n","s","h","o","t">>, <<"T","a","k","e"," ","S","c","r","e","e","n","s","h","o","t">>, <<"T","a","k","e"," ","a"," ","s","c","r","e","e","n","s","h","o","t"," ","o","f"," ","t","h","e"," ","c","u","r","r","e","n","t"," ","p","a","g","e">>, <<"u","t","i","l","i","t","y">>, <<"c","a","p","t","u","r","e">>),
    WithParameters(
      Tool(<<"s","c","r","o","l","l">>, <<"S","c","r","o","l","l"," ","P","a","g","e">>, <<"S","c","r","o","l","l"," ","t","h","e"," ","p","a","g","e"," ","u","p"," ","o","r"," ","d","o","w","n">>, <<"i","n","t","e","r","a","c","t","i","o","n">>, <<"s","c","r","o","l","l">>),
      (<<"d","i","r","e","c","t","i","o","n">> :> Parameter(<<"s","t","r","i","n","g">>, TRUE, <<"D","i","r","e","c","t","i","o","n"," ","t","o"," ","s","c","r","o","l","l"," ","(","u","p","/","d","o","w","n",")">>))
        @@ (<<"a","m","o","u","n","t">> :> Parameter(<<"n","u","m","b","e","r">>, FALSE, <<"A","m","o","u","n","t"," ","t","o"," ","s","c","r","o","l","l"," ","i","n"," ","p","i","x","e","l","s">>)))>>

\* the properties every object literal inherits from Object.prototype
ObjectPrototypeKeys ==
  {<<"c","o","n","s","t","r","u","c","t","o","r">>, <<"_","_","p","r","o","t","o","_","_">>, <<"t","o","S","t","r","i","n","g">>, <<"t","o","L","o","c","a","l","e","S","t","r","i","n","g">>, <<"v","a","l","u","e","O","f">>,
   <<"h","a","s","O","w","n","P","r","o","p","e","r","t","y">>, <<"i","s","P","r","o","t","o","t","y","p","e","O","f">>, <<"p","r","o","p","e","r","t","y","I","s","E","n","u","m","e","r","a","b","l","e">>,
   <<"_","_","d","e","f","i","n","e","G","e","t","t","e","r","_","_">>, <<"_","_","d","e","f","i","n","e","S","e","t","t","e","r","_","_">>, <<"_","_","l","o","o","k","u","p","G","e","t","t","e","r","_","_">>,
   <<"_","_","l","o","o","k","u","p","S","e","t","t","e","r","_","_">>}

\* serverToolMap[serverId]: the list of an own property, the function or
\* object of an inherited one, undefined for any other key
serverToolMap(serverId) ==
  IF serverId = <<"b","r","o","w","s","e","r","-","t","o","o","l","s">>
    THEN Arr(<<Str(<<"n","a","v","i","g","a","t","e">>), Str(<<"c","l","i","c","k">>), Str(<<"e","x","t","r","a","c","t","-","t","e","x","t">>),
               Str(<<"s","c","r","e","e","n","s","h","o","t">>), Str(<<"s","c","r","o","l","l">>)>>)
  ELSE IF serverId = <<"a","n","a","l","y","s","i","s","-","t","o","o","l","s">>
    THEN Arr(<<Str(<<"a","n","a","l","y","z","e","-","c","o","n","t","e","n","t">>), Str(<<"e","x","t","r","a","c","t","-","l","i","n","k","s">>), Str(<<"c","h","e","c","k","-","s","e","o">>)>>)
  ELSE IF serverId \in ObjectPrototypeKeys THEN [t |-> "inherited"]
  ELSE Undefined

\* the try block of GET of the tools route; serverId is what
\* searchParams.get('serverId') yields, null without the parameter
ToolsTryBlock(serverId) ==
  LET message(suffix) == Str(<<"T","o","o","l","s"," ","r","e","t","r","i","e","v","e","d"," ","s","u","c","c","e","s","s","f","u","l","l","y">> \o suffix)
      ok(tools, suffix) ==
        Return(200, [success |-> TRUE, data |-> Arr(tools), error |-> Undefined,
                     message |-> message(suffix)], FALSE)
  IN IF Falsy(serverId) THEN ok(McpTools, <<>>)
     ELSE LET found == serverToolMap(serverId.v)
              allowedToolIds == IF Falsy(found) THEN Arr(<<>>) ELSE found
          IN IF allowedToolIds.t # "arr"
               THEN Throw(TRUE, <<"a","l","l","o","w","e","d","T","o","o","l","I","d","s",".","i","n","c","l","u","d","e","s"," ","i","s"," ","n","o","t"," ","a"," ","f","u","n","c","t","i","o","n">>, FALSE)
             ELSE ok(SelectSeq(McpTools,
                       LAMBDA tool : \E i \in 1..Len(allowedToolIds.v) :
                                       allowedToolIds.v[i] = Get(tool, <<"i","d">>)),
                     <<" ","f","o","r"," ","s","e","r","v","e","r"," ">> \o serverId.v)

\* the catch block of GET of the tools route
ToolsCatchBlock(e) == Return(500, Failure(<<"F","a","i","l","e","d"," ","t","o"," ","r","e","t","r","i","e","v","e"," ","M","C","P"," ","t","o","o","l","s">>), e.called)

ToolsGET(serverId) ==
  LET r == ToolsTryBlock(serverId)
  IN IF r.kind = "throw" THEN ToolsCatchBlock(r) ELSE r

\* the values of the query parameter serverId that are drawn
ServerIdPieces ==
  {<<"b","r","o","w","s","e","r","-","t","o","o","l","s">>, <<"a","n","a","l","y","s","i","s","-","t","o","o","l","s">>, <<"c","o","n","s","t","r","u","c","t","o","r">>, <<"_","_","p","r","o","t","o","_","_">>, <<"x">>}

RECURSIVE ServerIdStrings(_)
ServerIdStrings(n) ==
  IF n = 0 THEN {<<>>}
  ELSE ServerIdStrings(n - 1)
         \cup {p \o r : p \in ServerIdPieces, r \in ServerIdStrings(n - 1)}

ServerIds == {Null} \cup {Str(s) : s \in ServerIdStrings(MaxPieces)}

InitTools == InitView /\ input \in ServerIds /\ output = Null

CallServersGET ==
  /\ op.name = "init"
  /\ output' = ServersGET
  /\ op' = Event("serversGET", Null)
  /\ UNCHANGED <<viewVars, analyses, timers, input>>

CallToolsGET ==
  /\ op.name = "init"
  /\ output' = ToolsGET(input)
  /\ op' = Event("toolsGET", input)
  /\ UNCHANGED <<viewVars, analyses, timers, input>>

NextTools == CallServersGET \/ CallToolsGET

SpecTools == InitTools /\ [][NextTools]_vars
(***************************************************************************)
(* Properties                                                              *)
(***************************************************************************)
ToolSet(server) == {server.tools[i] : i \in 1..Len(server.tools)}

ActiveIds(ts) == {ts[i].id : i \in {j \in 1..Len(ts) : ts[j].active}}

Ids(ts) == [i \in 1..Len(ts) |-> ts[i].id]

IndexOfId(ts, id) == CHOOSE i \in 1..Len(ts) : ts[i].id = id

\* C1: navigating with the url "github.com" sets the url to
\* "https://github.com", reports no validation error, starts no request to
\* /api/claude/analyze and connects a server that has the tools create-repo,
\* list-repos and search-code.
C1_NavigateBareDomain ==
  [][(op'.name = "navigateToMCP" /\ op'.arg = Str(<<"g","i","t","h","u","b",".","c","o","m">>))
       => /\ url' = <<"h","t","t","p","s",":","/","/","g","i","t","h","u","b",".","c","o","m">>
          /\ error' = Null
          /\ analyses' = analyses
          /\ currentServer' # Null
          /\ {Str(<<"c","r","e","a","t","e","-","r","e","p","o">>), Str(<<"l","i","s","t","-","r","e","p","o","s">>), Str(<<"s","e","a","r","c","h","-","c","o","d","e">>)}
               \subseteq ToolSet(currentServer')]_vars

\* C5: no two executions are pending at the same time.
C5_OneExecutionInFlight == Len(timers) <= 1

\* C6: in every reachable state there is a tab, and exactly one tab is active.
C6_OneActiveTab ==
  /\ Len(tabs) >= 1
  /\ Cardinality({i \in 1..Len(tabs) : tabs[i].active}) = 1

C6_Witness ==
  /\ op.name = "closeTab"
  /\ Len(tabs) = 2
  /\ tabs[2].active
  /\ isLoading

\* C7: closeTab with one tab open changes nothing: the tabs, the active tab,
\* the url, the connected server and the rest of the view state, the requests
\* in flight and the timers are as they were.
C7_CloseLastTabNoOp ==
  [][(op'.name = "closeTab" /\ Len(tabs) = 1)
       => UNCHANGED <<viewVars, analyses, timers>>]_vars

C7_Witness ==
  /\ op.name = "closeTab"
  /\ Len(tabs) = 1
  /\ op.arg = Num(tabs[1].id)
  /\ tabs[1].url # <<>>
  /\ url # <<>>

\* C8: closeTab with two tabs or more removes the tab; if the tab was active
\* the tab to its left, or the first remaining tab if it was the leftmost,
\* becomes the one active tab; if it was not active the active tab stays.
C8_CloseTabActivation ==
  [][(op'.name = "closeTab" /\ Len(tabs) >= 2)
       => LET j == IndexOfId(tabs, op'.arg.v)
          IN /\ Ids(tabs') = Ids(RemoveAt(tabs, j))
             /\ Cardinality({i \in 1..Len(tabs') : tabs'[i].active}) = 1
             /\ IF tabs[j].active
                  THEN /\ ActiveIds(tabs')
                            = {IF j >= 2 THEN tabs[j - 1].id ELSE tabs[2].id}
                       /\ activeTab' = (IF j >= 2 THEN tabs[j - 1].id ELSE tabs[2].id)
                  ELSE /\ ActiveIds(tabs') = ActiveIds(tabs)
                       /\ activeTab' = activeTab]_vars

\* tab 2 of the tabs 1, 2, 3 was closed while active and tab 3 had a url
C8_Witness ==
  /\ op.name = "closeTab"
  /\ op.arg = Num(2)
  /\ Ids(tabs) = <<1, 3>>
  /\ tabs[1].active
  /\ activeTab = 1
  /\ tabs[2].url # <<>>

\* C2 as stated: for every non-empty input that does not start with http://
\* or https://, sanitizeUrl returns "https://" followed by the trimmed input,
\* and validateUrl of that result is valid.
C2_SanitizeNonEmptyInput ==
  (/\ op.name \in {"sanitizeUrl", "validateSanitized"}
   /\ input # <<>>
   /\ ~HasProtocol(input))
    => /\ output.sanitized = Str(<<"h","t","t","p","s",":","/","/">> \o Trim(input))
       /\ op.name = "validateSanitized" => output.validation.isValid

\* C2: for every input whose trimmed form is non-empty and does not start
\* with http:// or https://, sanitizeUrl returns "https://" followed by the
\* trimmed input, and validateUrl of that result is valid.
C2_SanitizeThenValid ==
  (/\ op.name \in {"sanitizeUrl", "validateSanitized"}
   /\ Trim(input) # <<>>
   /\ ~HasProtocol(Trim(input)))
    => /\ output.sanitized = Str(<<"h","t","t","p","s",":","/","/">> \o Trim(input))
       /\ op.name = "validateSanitized" => output.validation.isValid

C2_Witness ==
  /\ op.name = "validateSanitized"
  /\ input = <<" ","x",".","i","o","\n">>
  /\ output.sanitized = Str(<<"h","t","t","p","s",":","/","/","x",".","i","o">>)
  /\ output.validation.isValid

RequiredToolFields == {<<"i","d">>, <<"n","a","m","e">>, <<"d","e","s","c","r","i","p","t","i","o","n">>, <<"c","a","t","e","g","o","r","y">>, <<"a","c","t","i","o","n">>}

\* a tools value that is a list of entries with the five fields
Populated(tools) ==
  /\ tools.t = "arr"
  /\ \A i \in 1..Len(tools.v) :
       \A f \in RequiredToolFields : ~Falsy(Get(tools.v[i], f))

\* the drawn completion is no JSON object in a wrapping without braces, or
\* its object lacks the tools list or a field of a tool
Malformed(d) ==
  \/ d.value = Null
  \/ d.wrap \notin BraceFreeWraps
  \/ ~Populated(Get(d.value, <<"t","o","o","l","s">>))

\* the handler gets as far as the completion, and the API answers with one
ReachesParser(d) ==
  /\ d.req.apiKey
  /\ d.req.body = ValidBody
  /\ d.req.api.kind = "message"

CompletionText(d) == ResponseText(d.req.api.content)

\* C3: a successful response to a malformed completion has a tools list
\* that is not empty, each tool of it with id, name, description, category
\* and action not empty.
C3_MalformedYieldsTools ==
  (/\ op.name = "POST"
   /\ ReachesParser(input)
   /\ Malformed(input)
   /\ output.status = 200)
    => /\ Populated(Get(output.body.data, <<"t","o","o","l","s">>))
       /\ Len(Get(output.body.data, <<"t","o","o","l","s">>).v) >= 1

\* C4: the normalization map applied to a normalized tools list returns the
\* list it was applied to.
C4_NormalizationIdempotent ==
  [][op'.name = "normalizeAgain" => output' = output]_vars

\* the list normalized twice had two entries, the first without an id
C4_Witness ==
  /\ op.name = "normalizeAgain"
  /\ input.value # Null
  /\ input.wrap \in BraceFreeWraps
  /\ Len(Get(input.value, <<"t","o","o","l","s">>).v) = 2
  /\ Falsy(Get(Get(input.value, <<"t","o","o","l","s">>).v[1], <<"i","d">>))
  /\ Get(Get(output.body.data, <<"t","o","o","l","s">>).v[1], <<"i","d">>) = Str(<<"t","o","o","l","-","0">>)

\* C9: a completion text without braces is answered with HTTP 200,
\* success = true and the tools navigate, extract-text, analyze-structure.
C9_NoBracesFallback ==
  (/\ op.name = "POST"
   /\ ReachesParser(input)
   /\ \A i \in 1..Len(CompletionText(input)) :
        CompletionText(input)[i] \notin {"{", "}"})
    => /\ output.status = 200
       /\ output.body.success
       /\ Get(output.body.data, <<"t","o","o","l","s">>).t = "arr"
       /\ [i \in 1..Len(Get(output.body.data, <<"t","o","o","l","s">>).v) |->
             Get(Get(output.body.data, <<"t","o","o","l","s">>).v[i], <<"i","d">>)]
            = <<Str(<<"n","a","v","i","g","a","t","e">>), Str(<<"e","x","t","r","a","c","t","-","t","e","x","t">>), Str(<<"a","n","a","l","y","z","e","-","s","t","r","u","c","t","u","r","e">>)>>

\* the text from its first "{" through its last "}", Null if there is none
BraceSpan(text) ==
  IF \E a, b \in 1..Len(text) : a < b /\ text[a] = "{" /\ text[b] = "}"
    THEN LET a == CHOOSE i \in 1..Len(text) :
                    text[i] = "{" /\ \A j \in 1..(i - 1) : text[j] # "{"
             b == CHOOSE i \in 1..Len(text) :
                    text[i] = "}" /\ \A j \in (i + 1)..Len(text) : text[j] # "}"
         IN SubSeq(text, a, b)
    ELSE Null

\* C10: a completion that is one JSON object with analysis, suggestions and
\* populated tools, inside a fence or prose without braces, is answered with
\* that object as the data; a completion whose span from the first "{"
\* through the last "}" is not JSON is answered with the fallback.
C10_BraceSpanParsed ==
  (op.name = "POST" /\ ReachesParser(input))
    => /\ (/\ input.value # Null
           /\ input.wrap \in BraceFreeWraps
           /\ Has(input.value, <<"a","n","a","l","y","s","i","s">>)
           /\ Has(input.value, <<"s","u","g","g","e","s","t","i","o","n","s">>)
           /\ Populated(Get(input.value, <<"t","o","o","l","s">>)))
            => /\ output.status = 200
               /\ output.body.success
               /\ output.body.data = input.value
       /\ (/\ BraceSpan(CompletionText(input)) # Null
           /\ ~JSONparse(BraceSpan(CompletionText(input))).ok)
            => /\ output.status = 200
               /\ output.body.success
               /\ output.body.data = FallbackAnalysis(CompletionText(input))

\* an object with two populated tools inside a markdown fence
C10_Witness ==
  /\ op.name = "POST"
  /\ ReachesParser(input)
  /\ input.value # Null
  /\ input.wrap = 2
  /\ Has(input.value, <<"a","n","a","l","y","s","i","s">>)
  /\ Populated(Get(input.value, <<"t","o","o","l","s">>))
  /\ Len(Get(input.value, <<"t","o","o","l","s">>).v) = 2
  /\ output.body.data = input.value

\* the url of the active tab
ActiveTabUrl(ts) == ts[CHOOSE i \in 1..Len(ts) : ts[i].active].url

\* C11: the response to a request the user has left behind (the active tab
\* has another url than the one the request analyzes, after a tab switch, a
\* closed tab or another navigation) changes neither the connected server nor
\* the suggested actions nor the error.
C11_LateAnalysisDiscarded ==
  [][(op'.name = "resolveAnalysis" /\ op'.arg.v # ActiveTabUrl(tabs))
       => UNCHANGED <<currentServer, predictiveActions, error>>]_vars

\* C12: navigateToMCP with a url that validateUrl rejects sets the error to
\* the validation messages and changes nothing else: no request is started,
\* and the url, the tabs, the suggestions, the connected server, isLoading
\* and the rest of the view state are as they were.
C12_InvalidUrlOnlySetsError ==
  [][(op'.name = "navigateToMCP" /\ ~validateUrl(op'.arg.v).isValid)
       => /\ error' = Str(Join(validateUrl(op'.arg.v).errors, <<","," ">>))
          /\ UNCHANGED <<url, isLoading, currentServer, suggestions, tabs,
                         activeTab, predictiveActions, executingAction,
                         selectedTool, toolResults, formData, analyses,
                         timers>>]_vars

\* "github.com" was rejected while a server was connected in a second tab
C12_Witness ==
  /\ op.name = "navigateToMCP"
  /\ op.arg = Str(<<"g","i","t","h","u","b",".","c","o","m">>)
  /\ error = Str(INVALID_URL)
  /\ currentServer # Null
  /\ Len(tabs) = 2
  /\ url = <<"g","i","t","h","u","b",".","c","o","m">>

\* C13: without the API key the handler answers 500 with the configuration
\* error, whatever the request body (malformed, null, without url, with an
\* invalid url) and whatever the completion API would do, and the completion
\* API is not called.
C13_MissingKeyFirst ==
  (op.name = "POST" /\ ~input.req.apiKey)
    => /\ output.kind = "return"
       /\ output.status = 500
       /\ ~output.body.success
       /\ output.body.error
            = Str(<<"A","n","t","h","r","o","p","i","c"," ","A","P","I"," ","k","e","y"," ","n","o","t"," ","c","o","n","f","i","g","u","r","e","d","."," ","P","l","e","a","s","e"," ","a","d","d"," ","A","N","T","H","R","O","P","I","C","_","A","P","I","_","K","E","Y"," ","t","o"," ","e","n","v","i","r","o","n","m","e","n","t"," ","v","a","r","i","a","b","l","e","s",".">>)
       /\ ~output.called

\* the key was absent and the body held the invalid url "github.com"
C13_Witness ==
  /\ op.name = "POST"
  /\ ~input.req.apiKey
  /\ input.req.body.kind = "json"
  /\ Get(input.req.body.val, <<"u","r","l">>) = Str(<<"g","i","t","h","u","b",".","c","o","m">>)
  /\ output.status = 500

\* the failure kinds the message of an error names
KindsNamed(m) ==
  {k \in {"authentication", "rate limit", "transport", "model"} :
     \/ k = "authentication"
          /\ (Includes(m, <<"A","P","I"," ","k","e","y">>) \/ Includes(m, <<"a","u","t","h","e","n","t","i","c","a","t","i","o","n">>)
                \/ Includes(m, <<"x","-","a","p","i","-","k","e","y">>))
     \/ k = "rate limit" /\ Includes(m, <<"r","a","t","e"," ","l","i","m","i","t">>)
     \/ k = "transport" /\ (Includes(m, <<"n","e","t","w","o","r","k">>) \/ Includes(m, <<"t","i","m","e","o","u","t">>))
     \/ k = "model" /\ Includes(m, <<"m","o","d","e","l">>)}

Outcome(status, message) == [status |-> status, error |-> Str(message)]

\* the status and the message of each failure mode
FailureOutcomes ==
  [k \in {"missing credentials", "authentication", "rate limit", "transport",
          "model"} |->
     IF k = "missing credentials"
       THEN Outcome(500, <<"A","n","t","h","r","o","p","i","c"," ","A","P","I"," ","k","e","y"," ","n","o","t"," ","c","o","n","f","i","g","u","r","e","d","."," ","P","l","e","a","s","e"," ","a","d","d"," ","A","N","T","H","R","O","P","I","C","_","A","P","I","_","K","E","Y"," ","t","o"," ","e","n","v","i","r","o","n","m","e","n","t"," ","v","a","r","i","a","b","l","e","s",".">>)
     ELSE IF k = "authentication"
       THEN Outcome(401, <<"I","n","v","a","l","i","d"," ","o","r"," ","m","i","s","s","i","n","g"," ","A","n","t","h","r","o","p","i","c"," ","A","P","I"," ","k","e","y","."," ","P","l","e","a","s","e"," ","c","h","e","c","k"," ","y","o","u","r"," ","e","n","v","i","r","o","n","m","e","n","t"," ","v","a","r","i","a","b","l","e","s",".">>)
     ELSE IF k = "rate limit" THEN Outcome(429, RATE_LIMITED)
     ELSE IF k = "transport"
       THEN Outcome(503, <<"N","e","t","w","o","r","k"," ","e","r","r","o","r"," ","c","o","n","n","e","c","t","i","n","g"," ","t","o"," ","A","n","t","h","r","o","p","i","c"," ","A","P","I","."," ","P","l","e","a","s","e"," ","t","r","y"," ","a","g","a","i","n",".">>)
     ELSE Outcome(400, <<"M","o","d","e","l"," ","e","r","r","o","r","."," ","P","l","e","a","s","e"," ","t","r","y"," ","a","g","a","i","n"," ","w","i","t","h"," ","a"," ","d","i","f","f","e","r","e","n","t"," ","r","e","q","u","e","s","t",".">>)]

\* the error thrown by the completion API reaches the catch block
ApiErrorCaught(d) ==
  /\ d.req.apiKey
  /\ d.req.body = ValidBody
  /\ d.req.api.kind = "error"
  /\ d.req.api.isError

ToolIds(tools) == [i \in 1..Len(tools.v) |-> Get(tools.v[i], <<"i","d">>)]

\* C15: the tools of a successful response have pairwise different ids.
C15_ToolIdsDistinct ==
  (/\ op.name = "POST"
   /\ output.status = 200
   /\ Get(output.body.data, <<"t","o","o","l","s">>).t = "arr")
    => \A i, j \in 1..Len(Get(output.body.data, <<"t","o","o","l","s">>).v) :
         i # j => ToolIds(Get(output.body.data, <<"t","o","o","l","s">>))[i]
                    # ToolIds(Get(output.body.data, <<"t","o","o","l","s">>))[j]

\* the default of the field f of the tool at position i (from 0)
DefaultOf(f, i) ==
  IF f = <<"i","d">> THEN <<"t","o","o","l","-">> \o NatToString(i)
  ELSE IF f = <<"n","a","m","e">> THEN <<"T","o","o","l"," ">> \o NatToString(i + 1)
  ELSE IF f = <<"d","e","s","c","r","i","p","t","i","o","n">> THEN <<"N","o"," ","d","e","s","c","r","i","p","t","i","o","n"," ","a","v","a","i","l","a","b","l","e">>
  ELSE IF f = <<"c","a","t","e","g","o","r","y">> THEN <<"u","t","i","l","i","t","y">>
  ELSE <<"e","x","e","c","u","t","e">>

\* a successful response to a drawn object with a tools list
NormalizedList(d) ==
  /\ op.name = "POST"
  /\ ReachesParser(d)
  /\ d.value # Null
  /\ d.wrap \in BraceFreeWraps
  /\ Get(d.value, <<"t","o","o","l","s">>).t = "arr"
  /\ output.status = 200

\* the members of a tools entry other than the five fields
OtherMembers(tool) ==
  IF tool.t = "obj" THEN DOMAIN tool.v \ RequiredToolFields ELSE {}

\* C16 as stated: the tool at position i gets the default of each of the
\* five fields it does not have, every field it has is kept, its other
\* members are kept, and the list keeps its length and order.
C16_DefaultsForAbsentFields ==
  NormalizedList(input)
    => LET tin == Get(input.value, <<"t","o","o","l","s">>).v
           tout == Get(output.body.data, <<"t","o","o","l","s">>).v
       IN /\ Len(tout) = Len(tin)
          /\ \A i \in 1..Len(tin) :
               /\ \A f \in RequiredToolFields :
                    Get(tout[i], f) = (IF Has(tin[i], f) THEN Get(tin[i], f)
                                       ELSE Str(DefaultOf(f, i - 1)))
               /\ \A k \in OtherMembers(tin[i]) : Get(tout[i], k) = Get(tin[i], k)

\* C16: the tool at position i gets the default of each of the five fields
\* that is absent or falsy (the empty string), every field with a truthy
\* value is kept, its other members are kept, and the list keeps its length
\* and order.
C16_DefaultsForFalsyFields ==
  NormalizedList(input)
    => LET tin == Get(input.value, <<"t","o","o","l","s">>).v
           tout == Get(output.body.data, <<"t","o","o","l","s">>).v
       IN /\ Len(tout) = Len(tin)
          /\ \A i \in 1..Len(tin) :
               /\ \A f \in RequiredToolFields :
                    Get(tout[i], f) = (IF ~Falsy(Get(tin[i], f)) THEN Get(tin[i], f)
                                       ELSE Str(DefaultOf(f, i - 1)))
               /\ \A k \in OtherMembers(tin[i]) : Get(tout[i], k) = Get(tin[i], k)

\* a tool with parameters, then a tool with nothing but the id "tool-1"
C16_Witness ==
  /\ NormalizedList(input)
  /\ Len(Get(input.value, <<"t","o","o","l","s">>).v) = 2
  /\ Has(Get(input.value, <<"t","o","o","l","s">>).v[1], <<"p","a","r","a","m","e","t","e","r","s">>)
  /\ Get(input.value, <<"t","o","o","l","s">>).v[2] = ToolShapes[5]
  /\ Get(Get(output.body.data, <<"t","o","o","l","s">>).v[2], <<"n","a","m","e">>) = Str(<<"T","o","o","l"," ","2">>)
  /\ Has(Get(output.body.data, <<"t","o","o","l","s">>).v[1], <<"p","a","r","a","m","e","t","e","r","s">>)

\* C17 as stated: validateUrl answers 'URL is required' for an input that is
\* empty or whitespace, 'Please enter a valid URL' for an input whose trimmed
\* form is not http:// or https:// followed by at least one character, and
\* valid with no message otherwise; isValid says that there is no message, and
\* nothing but the result changes.
C17_ValidateUrlAnyCharacter ==
  [][op'.name = "validateUrl"
       => LET r == output'.validation
              t == Trim(input)
          IN /\ r.isValid = (r.errors = <<>>)
             /\ r = (IF t = <<>>
                       THEN [isValid |-> FALSE, errors |-> <<<<"U","R","L"," ","i","s"," ","r","e","q","u","i","r","e","d">>>>]
                     ELSE IF ~\E p \in {<<"h","t","t","p",":","/","/">>, <<"h","t","t","p","s",":","/","/">>} :
                                StartsWith(t, p) /\ Len(t) > Len(p)
                       THEN [isValid |-> FALSE, errors |-> <<INVALID_URL>>]
                     ELSE [isValid |-> TRUE, errors |-> <<>>])
             /\ UNCHANGED <<viewVars, analyses, timers, input>>]_vars

\* C17: validateUrl answers 'URL is required' for an input that is empty or
\* whitespace, 'Please enter a valid URL' for an input whose trimmed form is
\* not http:// or https:// followed by a character that is no line
\* terminator, and valid with no message otherwise; isValid says that there
\* is no message, and nothing but the result changes.
C17_ValidateUrlContract ==
  [][op'.name = "validateUrl"
       => LET r == output'.validation
              t == Trim(input)
          IN /\ r.isValid = (r.errors = <<>>)
             /\ r = (IF t = <<>>
                       THEN [isValid |-> FALSE, errors |-> <<<<"U","R","L"," ","i","s"," ","r","e","q","u","i","r","e","d">>>>]
                     ELSE IF ~\E p \in {<<"h","t","t","p",":","/","/">>, <<"h","t","t","p","s",":","/","/">>} :
                                /\ StartsWith(t, p)
                                /\ Len(t) > Len(p)
                                /\ t[Len(p) + 1] \notin {"\n", "\r"}
                       THEN [isValid |-> FALSE, errors |-> <<INVALID_URL>>]
                     ELSE [isValid |-> TRUE, errors |-> <<>>])
             /\ UNCHANGED <<viewVars, analyses, timers, input>>]_vars

\* a url with a blank before it was accepted
C17_Witness ==
  /\ op.name = "validateUrl"
  /\ input = <<" ","h","t","t","p","s",":","/","/","x",".","i","o">>
  /\ output.validation.isValid
  /\ output.validation.errors = <<>>

\* the result of the tool t is on the screen: the tool interface is rendered
\* for the selected tool of a connected server and shows toolResults[t]
ResultShown(t) ==
  /\ currentServer # Null
  /\ selectedTool = Str(t)
  /\ t \in DOMAIN toolResults

\* C18: a tool result recorded while one tab is active is never shown while
\* a different tab is active. In SpecIso every result is recorded while the
\* first tab is active, so no result is shown while another tab is.
C18_ResultsStayInTheirTab ==
  activeTab # 1 => \A t \in DOMAIN toolResults : ~ResultShown(t)

\* C19: every step that changes the active tab leaves no tool selected, no
\* form values and no error.
C19_TabSwitchClearsTransientState ==
  [][activeTab' # activeTab
       => /\ selectedTool' = Null
          /\ formData' = <<>>
          /\ error' = Null]_vars

\* the JSON body of the response in output
WireBody == IF op.name = "POST" THEN ResponseJson(output.body) ELSE output.body

\* C20: every response of a route handler is an envelope {success, data?,
\* error?, message?} whose success is a boolean that is true exactly when the
\* status is 200, and no exception leaves a handler.
C20_EveryResponseIsEnvelope ==
  op.name \in {"POST", "GET"}
    => /\ output.kind = "return"
       /\ DOMAIN WireBody.v \subseteq {<<"s","u","c","c","e","s","s">>, <<"d","a","t","a">>, <<"e","r","r","o","r">>, <<"m","e","s","s","a","g","e">>}
       /\ Has(WireBody, <<"s","u","c","c","e","s","s">>)
       /\ Get(WireBody, <<"s","u","c","c","e","s","s">>).t = "bool"
       /\ Get(WireBody, <<"s","u","c","c","e","s","s">>).v = (output.status = 200)

\* C21: when /analyze answers 429 with the rate-limit message, the error the
\* view shows is that message, and the response starts no further request.
\* (The one rejection among ViewApiOutcomes is the rate-limit error, so an
\* error set by the arrival of a response is set by that rejection.)
C21_RateLimitMessageShown ==
  [][op'.name = "resolveAnalysis"
       => /\ Len(analyses') = Len(analyses) - 1
          /\ error' # error => error' = Str(RATE_LIMITED)]_vars

\* the tools and suggested actions of the server GoodCompletion yields
ExecutableNames == {Str(<<"t","1">>), Str(<<"t","2">>), Str(<<"a","c","t","i","o","n","-","0">>)}

\* C22: an execution is started for the tool t with the form values of t read
\* at that moment; after the delay it completes: the oldest pending execution
\* records under t the string built from t and its parameters, leaves every
\* other result as it was, and neither step touches the error, the connected
\* server or the selected tool; every execution started for t is followed by a
\* completion for t.
C22_ExecutionCompletes ==
  /\ [][/\ op'.name \in {"handleExecuteTool", "executeAction"}
             => /\ timers' \in {timers, Append(timers,
                                  [toolName |-> op'.arg,
                                   parameters |-> IF op'.arg.v \in DOMAIN formData
                                                    THEN formData[op'.arg.v]
                                                    ELSE EmptyObj])}
                /\ UNCHANGED <<toolResults, error, currentServer, selectedTool>>
        /\ op'.name = "timerFires"
             => LET t == timers[1].toolName.v
                    p == timers[1].parameters
                IN /\ timers' = Tail(timers)
                   /\ DOMAIN toolResults' = DOMAIN toolResults \cup {t}
                   /\ p = EmptyObj =>
                        toolResults'[t] =
                          Str(<<"T","o","o","l"," ","\"">> \o t \o <<"\""," ","e","x","e","c","u","t","e","d"," ","s","u","c","c","e","s","s","f","u","l","l","y"," ","w","i","t","h"," ","p","a","r","a","m","e","t","e","r","s",":"," ","{","}">>)
                   /\ \A k \in DOMAIN toolResults \ {t} : toolResults'[k] = toolResults[k]
                   /\ UNCHANGED <<error, currentServer, selectedTool>>]_vars
  /\ [](\A i \in 1..Len(timers) : timers[i].toolName \in ExecutableNames)
  /\ \A t \in ExecutableNames :
       (/\ op.name \in {"handleExecuteTool", "executeAction"}
        /\ op.arg = t
        /\ timers # <<>>
        /\ timers[Len(timers)].toolName = t)
         ~> (op.name = "timerFires" /\ op.arg = t /\ t.v \in DOMAIN toolResults)

\* two tools have run to their results
C22_Witness ==
  /\ op.name = "timerFires"
  /\ timers = <<>>
  /\ Cardinality(DOMAIN toolResults) = 2

\* the tool ids the tools route allows for a server
Allowlist(serverId) ==
  IF serverId = <<"b","r","o","w","s","e","r","-","t","o","o","l","s">>
    THEN {<<"n","a","v","i","g","a","t","e">>, <<"c","l","i","c","k">>, <<"e","x","t","r","a","c","t","-","t","e","x","t">>, <<"s","c","r","e","e","n","s","h","o","t">>, <<"s","c","r","o","l","l">>}
  ELSE IF serverId = <<"a","n","a","l","y","s","i","s","-","t","o","o","l","s">>
    THEN {<<"a","n","a","l","y","z","e","-","c","o","n","t","e","n","t">>, <<"e","x","t","r","a","c","t","-","l","i","n","k","s">>, <<"c","h","e","c","k","-","s","e","o">>}
  ELSE {}

\* C23: GET /tools answers 200 with success = true; its data is all tools
\* when no serverId is given (the parameter is absent or empty), and
\* otherwise the tools whose id is in the allowlist of serverId, in their
\* order: none for a serverId without allowlist.
C23_ToolsFilteredByAllowlist ==
  op.name = "toolsGET"
    => /\ output.status = 200
       /\ output.body.success
       /\ output.body.data =
            Arr(IF input \in {Null, Str(<<>>)} THEN McpTools
                ELSE SelectSeq(McpTools,
                       LAMBDA tool : Get(tool, <<"i","d">>).v \in Allowlist(input.v)))

\* C24: a tool is selected only while a server is connected, closing the
\* tool leaves the server, the form values and the results as they were, and
\* a selected tool is always one of the tools of the connected server.
C24_SelectedToolOfConnectedServer ==
  [][/\ op'.name = "selectTool" => currentServer # Null
     /\ op'.name = "closeTool"
          => /\ selectedTool' = Null
             /\ UNCHANGED <<currentServer, formData, toolResults>>
     /\ selectedTool' # Null
          => /\ currentServer' # Null
             /\ selectedTool' \in ToolSet(currentServer')]_vars

\* what a navigate step with a url that passes validation does to the url,
\* the tabs and the requests in flight
NavigateSetsActiveTab ==
  (op'.name = "navigateToMCP" /\ validateUrl(op'.arg.v).isValid)
    => LET sanitizedUrl == sanitizeUrl(op'.arg.v)
       IN /\ url' = sanitizedUrl
          /\ Len(tabs') = Len(tabs)
          /\ \A i \in 1..Len(tabs) :
               tabs'[i] = IF tabs[i].active
                            THEN [tabs[i] EXCEPT !.url = sanitizedUrl,
                                                 !.title = sanitizedUrl]
                            ELSE tabs[i]
          /\ analyses' = Append(analyses, sanitizedUrl)
          /\ error' = Null

\* what the arrival of a successful analysis does to the server and the
\* suggested actions
SuccessConnectsServer ==
  (op'.name = "resolveAnalysis" /\ op'.result.kind = "resolved")
    => LET tools == Get(op'.result.data, <<"t","o","o","l","s">>).v
           sugg == Get(op'.result.data, <<"s","u","g","g","e","s","t","i","o","n","s">>).v
       IN /\ currentServer' # Null
          /\ currentServer'.tools = [i \in 1..Len(tools) |-> Get(tools[i], <<"i","d">>)]
          /\ predictiveActions' = currentServer'.predictiveActions
          /\ Len(predictiveActions') = Len(sugg)
          /\ \A i \in 1..Len(sugg) : predictiveActions'[i].context = sugg[i]

C26_ServerOfActiveUrl ==
  (analyses = <<>> /\ currentServer # Null)
    => currentServer.baseUrl = Str(ActiveTabUrl(tabs))

\* C27: isLoading is true exactly while a request to /api/claude/analyze is
\* in flight.
C27_LoadingWhileInFlight == isLoading <=> analyses # <<>>

\* C28: while an execution is pending, executingAction is the tool of a
\* pending execution; while none is pending it is none.
C28_ExecutingActionTracksTimers ==
  IF timers = <<>> THEN executingAction = Null
  ELSE \E i \in 1..Len(timers) : timers[i].toolName = executingAction

\* C29: whatever the try block of POST throws is answered by the message of
\* the error alone, with the first that applies of: key patterns 401, rate
\* limit 429, network or timeout 503, model 400, else 500 with 'API Error: '
\* and the message; a thrown value that is no Error is answered with 500 and
\* the generic server-error message.
C29_ClassifierPrecedence ==
  (op.name = "POST" /\ TryBlock(input.req).kind = "throw")
    => LET e == TryBlock(input.req)
           kinds == KindsNamed(e.message)
       IN /\ output.kind = "return"
          /\ output.body.success = FALSE
          /\ Outcome(output.status, output.body.error.v) =
               (IF ~e.isError THEN Outcome(500, SERVER_ERROR)
                ELSE IF "authentication" \in kinds THEN FailureOutcomes["authentication"]
                ELSE IF "rate limit" \in kinds THEN FailureOutcomes["rate limit"]
                ELSE IF "transport" \in kinds THEN FailureOutcomes["transport"]
                ELSE IF "model" \in kinds THEN FailureOutcomes["model"]
                ELSE Outcome(500, <<"A","P","I"," ","E","r","r","o","r",":"," ">> \o e.message))

\* a message that names the rate limit and a key pattern was answered 401
C29_Witness ==
  /\ op.name = "POST"
  /\ input.req.api.kind = "error"
  /\ {"authentication", "rate limit"} \subseteq KindsNamed(input.req.api.message)
  /\ output.status = 401

\* the ids of the tabs are pairwise distinct and activeTab is the id of the
\* one tab whose active flag is set
TabsWellFormed(ts, active) ==
  /\ \A i, j \in 1..Len(ts) : i # j => ts[i].id # ts[j].id
  /\ {i \in 1..Len(ts) : ts[i].active} = {i \in 1..Len(ts) : ts[i].id = active}
  /\ \E i \in 1..Len(ts) : ts[i].active

\* C30: in every state the tab ids are pairwise distinct and activeTab is the
\* id of the one active tab; newTab appends a tab whose id is the largest id
\* plus one, with an empty url and the title 'New Tab', makes it the active
\* tab, and leaves id, url and title of the tabs there were unchanged.
C30_TabsWellFormed ==
  /\ TabsWellFormed(tabs, activeTab)
  /\ [][/\ TabsWellFormed(tabs', activeTab')
        /\ op'.name = "createNewTab"
             => LET n == Len(tabs)
                    newTab == tabs'[n + 1]
                IN /\ Len(tabs') = n + 1
                   /\ \A i \in 1..n : tabs[i].id < newTab.id
                   /\ \E i \in 1..n : newTab.id = tabs[i].id + 1
                   /\ newTab.url = <<>>
                   /\ newTab.title = <<"N","e","w"," ","T","a","b">>
                   /\ newTab.active
                   /\ activeTab' = newTab.id
                   /\ \A i \in 1..n :
                        /\ tabs'[i].id = tabs[i].id
                        /\ tabs'[i].url = tabs[i].url
                        /\ tabs'[i].title = tabs[i].title]_vars

\* a tab was opened after the first tab had been closed and the second one
\* had been navigated
C30_Witness ==
  /\ op.name = "createNewTab"
  /\ Len(tabs) = 2
  /\ tabs[1].id = 2
  /\ tabs[1].url # <<>>
  /\ tabs[2].id = 3
  /\ activeTab = 3
====
